---- MODULE Spec2Model ----
(***************************************************************************)
(* whisperq-frontend: the reaction store (useReactionStore), the clock it  *)
(* reads (Date.now), the useWebSocket hook (its STOMP client, its grace    *)
(* timer and the subscription callback that feeds the store), the click    *)
(* handler of AudiencePage (burst classifier and delivery of a reaction),  *)
(* its question form, the code form of JoinPage, the question list of      *)
(* DashboardPage and the session controls of AdminPage.                    *)
(***************************************************************************)
EXTENDS Integers, Sequences, FiniteSets, TLC

VARIABLES
    now,              \* Date.now(), milliseconds
    reactions,        \* store: the event log, TimestampedReaction[]
    recentReactions,  \* store: the displayed scores { confused, more }
    intensity,        \* store: 0-100
    dominantType,     \* store: "confused" | "more" | "null"
    glowActive,       \* store: boolean
    subscribed,       \* useWebSocket: the topic subscription made by onConnect exists
    unhandledFault,   \* an exception left a callback or a handler uncaught
    lastOp,           \* trace: the last store operation, its arguments, and for an
                      \* addReaction whether it replaced a snapshot's display
    lastMsg,          \* trace: the last message body the subscription callback got,
                      \* and on which connection of the client it came
    view,             \* the page that owns the hook: "new" | "mounted" | "torndown"
    page,             \* which page it is, "none" until its effects have run
    intervals,        \* the setInterval timers of the page that are running
    client,           \* the STOMP Client made by connect(), as the library sees it
    clientRef,        \* useWebSocket: clientRef.current, "null" | "client"
    isConnected,      \* useWebSocket: useState(false)
    connectionError,  \* useWebSocket: useState(null), "null" or the message
    errorTimeoutRef,  \* useWebSocket: errorTimeoutRef.current, NoTimer or a handle
    timers,           \* the grace timeouts pending in the runtime, by start time
    hookLog,          \* trace: the last callback of the hook and what it surfaced
    clickTimestamps,  \* AudiencePage: useState<number[]>([])
    clickLog,         \* trace: the time of every click made so far
    clickedTypes,     \* trace: the reaction types clicked so far
    lastClick,        \* trace: what the last handleReaction computed and sent
    feedbackCount,    \* trace: how often the strong-feedback message was shown
    attempts,         \* trace: deliveries started, per transport
    sent,             \* trace: the message bodies the broker has published to the topic
    inflight,         \* the bodies on their way to the client, oldest first
    received,         \* trace: the bodies the subscription callback got, with its outcome
    question,         \* AudiencePage: useState(""), the text of the question input
    isSubmitting,     \* AudiencePage: useState(false)
    sentQuestions,    \* AudiencePage: useState<SentQuestion[]>([]), newest first
    pendingQuestion,  \* the createQuestion request awaited: {} or the handler's closure
    lastSubmit,       \* trace: how the last awaited createQuestion ended
    code,             \* JoinPage: useState(['', '', '', '', '', ''])
    isLoading,        \* JoinPage: useState(false)
    error,            \* JoinPage: useState(null), "null" or the message
    route,            \* the router's location: the join page or a session view
    options,          \* useWebSocket: the options of the last render, the session
                      \* id and the identity of the callbacks passed
    callbackRefs,     \* useWebSocket: onConnectRef, onDisconnectRef, onErrorRef
    released,         \* the clients the hook let go of whose sockets are still open
    dashboard,        \* DashboardPage: the useState and useRef values of the list
    localStorage,     \* whisperq_checked_questions_<sessionId>, a JSON array
    api,              \* the backend's questions and the getQuestions calls awaited
    admin             \* AdminPage: the useState values, the dependencies the peak
                      \* effect last ran with, and the last answer to confirm()

\* the store
storeVars == <<reactions, recentReactions, intensity, dominantType, glowActive>>

\* the hook and its client
hookVars == <<subscribed, client, clientRef, isConnected, connectionError,
              errorTimeoutRef, timers, hookLog>>

\* the owning page
viewVars == <<view, page, intervals>>

\* the click handler of AudiencePage
clickVars == <<clickTimestamps, clickLog, clickedTypes, lastClick, feedbackCount, attempts>>

\* the topic of the push channel, between the broker and the subscription callback
wireVars == <<sent, inflight, received>>

\* the question form of AudiencePage
questionVars == <<question, isSubmitting, sentQuestions, pendingQuestion, lastSubmit>>

\* JoinPage and the router
joinVars == <<code, isLoading, error, route>>

\* what a render of the page passes to the hook, and the clients it replaced
sessionVars == <<options, callbackRefs, released>>

\* the question list of DashboardPage
dashVars == <<dashboard, localStorage, api>>

\* the state of the presenter pages
pageVars == <<sessionVars, dashVars, admin>>

\* the forms and lists of the pages
formVars == <<questionVars, joinVars, pageVars>>

vars == <<now, storeVars, unhandledFault, lastOp, lastMsg, hookVars, viewVars, clickVars,
          wireVars, formVars>>

\* what the store's operations never touch
envVars == <<now, unhandledFault, lastMsg, hookVars, viewVars, clickVars, wireVars, formVars>>

-----------------------------------------------------------------------------
(* Program constants *)

GLOW_THRESHOLD == 5

SLIDING_WINDOW_MS == 30000

ReactionType == {"confused", "more"}

\* AudiencePage: the click window, (ts) => now - ts < 5000
CLICK_WINDOW_MS == 5000

\* AudiencePage: isRapidClick = newClicks.length >= 5
RAPID_CLICK_COUNT == 5

\* faulty variant: the grace period is a millisecond short
GRACE_PERIOD_SHORT == 10000 - 1

\* useWebSocket: setTimeout(..., 10000), the grace period of a transport error
GRACE_PERIOD_MS == 10000

\* the pages that own a useWebSocket hook
Pages == {"audience", "dashboard", "admin"}

\* errorTimeoutRef.current === null
NoTimer == -1

-----------------------------------------------------------------------------
(* Bounds of the model *)

\* largest number of events the log may hold after an addReaction
MaxLog == 4

\* the instants Date.now() takes: both sides of the 30000 ms window edge
Instants == {0, 29999, 30000}

\* the snapshots the push channel may carry, as <<confused, more>>
Snapshots == {<<0, 0>>, <<7, 2>>, <<2, 7>>, <<7, 7>>}

\* counts a demo update may set: the reset value and the first +5 step
CountVals == {0, 5}

\* intensity arguments of updateReactions: those the demo buttons pass
IntensityVals == {0, 100}

\* values the new-format fields of a message carry; {} is an absent (or null) field
NewVals == {{}, {0}, {7}}

\* values the legacy fields of a message carry
LegacyVals == {{}, {5}}

\* largest number of clicks made on the audience page
MaxClicks == 6

\* the instants of the audience page: one click a second, and both sides of the
\* 5000 ms edge of the click window for a click made at 1000
ClickInstants == {0, 1000, 2000, 3000, 4000, 5000, 5999, 6000}

\* the instants of the five-click scenario: one click a second
ScenarioInstants == {0, 1000, 2000, 3000, 4000}

\* the instants of the hook: both sides of the 10000 ms grace period
ConnInstants == {0, 9999, 10000}

\* largest number of times one client gets connected
MaxConnects == 2

\* largest number of messages the broker publishes to the topic
MaxMessages == 3

\* largest number of questions sent from the audience page
MaxQuestions == 4

\* largest number of clicks, and of logged events, where the click window and the
\* store run side by side
MaxSideClicks == 2

MaxSideLog == 2

\* the instants at which the admin page is exercised
AdminInstants == {0, 1000, 2000}

\* bounds of the page's renders: the callbacks passed and the session ids
MaxCallbacks == 2

MaxSessions == 2

\* bounds of the dashboard's question list: the getQuestions calls made, and the
\* questions the backend holds
MaxFetches == 3

MaxPosted == 2

\* the instants there: both sides of the 5000 ms edge of the click window
SideInstants == {0, 4999, 5000}

\* the texts typed into the question input, as sequences of characters: nothing,
\* a blank, a word between blanks, two words
Texts == {<<>>, <<" ">>, <<" ", "a", " ">>, <<"a", " ", "b">>}

\* the instants of the question form
QuestionInstants == {0, 1000}

\* the values an input of the code form is given: nothing, a letter, a digit,
\* a character that is neither, two letters
SlotValues == {<<>>, <<"a">>, <<"1">>, <<"-">>, <<"a", "b">>}

\* the session codes the backend has a session for
Sessions == {<<"A", "1", "A", "1", "A", "1">>}

\* how a fetch ends: a 2xx response, another status, or no response at all
Responses == {"ok", "notOk", "networkError"}

-----------------------------------------------------------------------------
(* Pure helpers of the store *)

\* faulty variant: a rapid click counts like a normal one
PointsFlat(isRapidClick) == 1

\* const points = isRapidClick ? 2 : 1
Points(isRapidClick) == IF isRapidClick THEN 2 ELSE 1

\* faulty variant: the age filter keeps everything
PruneKeepAll(log, t) == log

\* faulty variant: the window is 3 seconds, a digit short
PruneShortWindow(log, t) == SelectSeq(log, LAMBDA r : t - r.timestamp < 3000)

\* faulty variant: an event exactly 30000 ms old is kept
PruneInclusive(log, t) == SelectSeq(log, LAMBDA r : t - r.timestamp <= SLIDING_WINDOW_MS)

\* faulty variant: only the oldest event is tested and removed
PruneOldestOnly(log, t) ==
    IF log # <<>> /\ t - Head(log).timestamp >= SLIDING_WINDOW_MS THEN Tail(log) ELSE log

\* state.reactions.filter(r => now - r.timestamp < SLIDING_WINDOW_MS)
Prune(log, t) == SelectSeq(log, LAMBDA r : t - r.timestamp < SLIDING_WINDOW_MS)

\* faulty variant: every event counts 1, its points are ignored
RECURSIVE ScoreCountsEvents(_, _)
ScoreCountsEvents(log, type) ==
    IF log = <<>> THEN 0
    ELSE (IF Head(log).type = type THEN 1 ELSE 0) + ScoreCountsEvents(Tail(log), type)

\* newReactions.filter(r => r.type === type).reduce((sum, r) => sum + r.points, 0)
RECURSIVE Score(_, _)
Score(log, type) ==
    IF log = <<>> THEN 0
    ELSE (IF Head(log).type = type THEN Head(log).points ELSE 0) + Score(Tail(log), type)

\* faulty variant: blue is tested before orange
DominantMoreFirst(confused, more) ==
    IF more >= GLOW_THRESHOLD THEN "more"
    ELSE IF confused >= GLOW_THRESHOLD THEN "confused"
    ELSE "null"

\* let dominant = null; if (confused >= T) 'confused' else if (more >= T) 'more'
Dominant(confused, more) ==
    IF confused >= GLOW_THRESHOLD THEN "confused"
    ELSE IF more >= GLOW_THRESHOLD THEN "more"
    ELSE "null"

\* faulty variant: only the confused score is tested
GlowConfusedOnly(confused, more) == confused >= GLOW_THRESHOLD

\* const glowActive = confused >= GLOW_THRESHOLD || more >= GLOW_THRESHOLD
Glow(confused, more) == confused >= GLOW_THRESHOLD \/ more >= GLOW_THRESHOLD

\* the pruning and derivation of addReaction applied to a log at time t without a
\* new event: the filter by age, the scores, dominantType, glowActive, intensity
Derive(log, t) ==
    LET newReactions == Prune(log, t)
        confused == Score(newReactions, "confused")
        more == Score(newReactions, "more")
        glow == Glow(confused, more)
    IN  [reactions |-> newReactions,
         recentReactions |-> [confused |-> confused, more |-> more],
         intensity |-> IF glow THEN 100 ELSE 0,
         dominantType |-> Dominant(confused, more),
         glowActive |-> glow]

-----------------------------------------------------------------------------
(* Initial state: the store as created, nothing subscribed *)

\* no message yet
NoBody == [kind |-> "none", reactionCounts |-> {}, confusedCount |-> {}, moreCount |-> {}]

Init ==
    /\ now = 0
    /\ reactions = <<>>
    /\ recentReactions = [confused |-> 0, more |-> 0]
    /\ intensity = 0
    /\ dominantType = "null"
    /\ glowActive = FALSE
    /\ subscribed = FALSE
    /\ unhandledFault = FALSE
    /\ lastOp = [op |-> "init", args |-> <<>>, overSnapshot |-> FALSE]
    /\ lastMsg = [body |-> NoBody, outcome |-> "none", conn |-> 0]
    /\ view = "new"
    /\ page = "none"
    /\ intervals = {}
    /\ client = "none"
    /\ clientRef = "null"
    /\ isConnected = FALSE
    /\ connectionError = "null"
    /\ errorTimeoutRef = NoTimer
    /\ timers = {}
    /\ hookLog = [handler |-> "none", surfaced |-> "none", torndown |-> FALSE,
                  start |-> NoTimer, cancelled |-> NoTimer, connects |-> 0,
                  invoked |-> 0]
    /\ clickTimestamps = <<>>
    /\ clickLog = <<>>
    /\ clickedTypes = {}
    /\ lastClick = [isRapid |-> FALSE, count |-> 0, feedback |-> FALSE,
                    connected |-> FALSE, via |-> "none"]
    /\ feedbackCount = 0
    /\ attempts = [channel |-> 0, http |-> 0]
    /\ sent = <<>>
    /\ inflight = <<>>
    /\ received = <<>>
    /\ question = <<>>
    /\ isSubmitting = FALSE
    /\ sentQuestions = <<>>
    /\ pendingQuestion = {}
    /\ lastSubmit = [outcome |-> "none", text |-> <<>>]
    /\ code = [index \in 0..5 |-> <<>>]
    /\ isLoading = FALSE
    /\ error = "null"
    /\ route = [page |-> "join", sessionCode |-> <<>>]
    /\ options = [sessionId |-> 1, callbacks |-> 1]
    /\ callbackRefs = 1
    /\ released = <<>>
    /\ dashboard = [showQuestionsModal |-> FALSE, questions |-> <<>>,
                    isLoadingQuestions |-> FALSE, hasFetchedOnce |-> FALSE,
                    checkedIds |-> <<>>]
    /\ localStorage = <<>>
    /\ api = [questions |-> 0, calls |-> 0, pending |-> <<>>]
    /\ admin = [sessionStartTime |-> {}, sessionEndTime |-> {}, peakConfused |-> 0,
                peakMore |-> 0, deps |-> {}, confirm |-> "none"]

\* time passes, to one of the instants of S
TickIn(S) ==
    /\ \E t \in S : t > now /\ now' = t
    /\ UNCHANGED <<storeVars, unhandledFault, lastOp, lastMsg, hookVars, viewVars, clickVars,
                   wireVars, formVars>>

Tick == TickIn(Instants)

-----------------------------------------------------------------------------
(* The store's operations *)

\* faulty variant: the new event is put in front of the log
addReactionPrepends(type, isRapidClick) ==
    LET points == Points(isRapidClick)
        newReactions == <<[type |-> type, timestamp |-> now, points |-> points]>>
                        \o Prune(reactions, now)
        confused == Score(newReactions, "confused")
        more == Score(newReactions, "more")
        glow == Glow(confused, more)
    IN  /\ reactions' = newReactions
        /\ recentReactions' = [confused |-> confused, more |-> more]
        /\ intensity' = IF glow THEN 100 ELSE 0
        /\ dominantType' = Dominant(confused, more)
        /\ glowActive' = glow
        /\ lastOp' = [op |-> "add", args |-> <<type, isRapidClick>>,
                      overSnapshot |-> lastOp.op = "backend"]

addReaction(type, isRapidClick) ==
    LET points == Points(isRapidClick)
        newReactions == Append(Prune(reactions, now),
                               [type |-> type, timestamp |-> now, points |-> points])
        confused == Score(newReactions, "confused")
        more == Score(newReactions, "more")
        glow == Glow(confused, more)
    IN  /\ reactions' = newReactions
        /\ recentReactions' = [confused |-> confused, more |-> more]
        /\ intensity' = IF glow THEN 100 ELSE 0
        /\ dominantType' = Dominant(confused, more)
        /\ glowActive' = glow
        /\ lastOp' = [op |-> "add", args |-> <<type, isRapidClick>>,
                      overSnapshot |-> lastOp.op = "backend"]

\* faulty variant: the snapshot is added to the scores of the local log
setReactionsFromBackendMerged(confused, more) ==
    LET c == confused + Score(reactions, "confused")
        m == more + Score(reactions, "more")
        glow == Glow(c, m)
    IN  /\ recentReactions' = [confused |-> c, more |-> m]
        /\ intensity' = IF glow THEN 100 ELSE 0
        /\ dominantType' = Dominant(c, m)
        /\ glowActive' = glow
        /\ lastOp' = [op |-> "backend", args |-> <<confused, more>>, overSnapshot |-> FALSE]
        /\ UNCHANGED reactions

\* faulty variant: a score is only ever raised by a snapshot
setReactionsFromBackendRaises(confused, more) ==
    LET c == IF confused > recentReactions.confused THEN confused ELSE recentReactions.confused
        m == IF more > recentReactions.more THEN more ELSE recentReactions.more
        glow == Glow(c, m)
    IN  /\ recentReactions' = [confused |-> c, more |-> m]
        /\ intensity' = IF glow THEN 100 ELSE 0
        /\ dominantType' = Dominant(c, m)
        /\ glowActive' = glow
        /\ lastOp' = [op |-> "backend", args |-> <<confused, more>>, overSnapshot |-> FALSE]
        /\ UNCHANGED reactions

\* faulty variant: a snapshot also empties the local event log
setReactionsFromBackendClearsLog(confused, more) ==
    LET glow == Glow(confused, more)
    IN  /\ recentReactions' = [confused |-> confused, more |-> more]
        /\ intensity' = IF glow THEN 100 ELSE 0
        /\ dominantType' = Dominant(confused, more)
        /\ glowActive' = glow
        /\ lastOp' = [op |-> "backend", args |-> <<confused, more>>, overSnapshot |-> FALSE]
        /\ reactions' = <<>>

setReactionsFromBackend(confused, more) ==
    LET glow == Glow(confused, more)
    IN  /\ recentReactions' = [confused |-> confused, more |-> more]
        /\ intensity' = IF glow THEN 100 ELSE 0
        /\ dominantType' = Dominant(confused, more)
        /\ glowActive' = glow
        /\ lastOp' = [op |-> "backend", args |-> <<confused, more>>, overSnapshot |-> FALSE]
        /\ UNCHANGED reactions

\* faulty variant: the intensity argument is stored whatever the glow is
updateReactionsRawIntensity(type, count, intensityArg) ==
    LET newReactions == [recentReactions EXCEPT ![type] = count]
        glow == Glow(newReactions.confused, newReactions.more)
    IN  /\ recentReactions' = newReactions
        /\ intensity' = intensityArg
        /\ dominantType' = Dominant(newReactions.confused, newReactions.more)
        /\ glowActive' = glow
        /\ lastOp' = [op |-> "update", args |-> <<>>, overSnapshot |-> FALSE]
        /\ UNCHANGED reactions

updateReactions(type, count, intensityArg) ==
    LET newReactions == [recentReactions EXCEPT ![type] = count]
        glow == Glow(newReactions.confused, newReactions.more)
    IN  /\ recentReactions' = newReactions
        /\ intensity' = IF glow THEN 100 ELSE intensityArg
        /\ dominantType' = Dominant(newReactions.confused, newReactions.more)
        /\ glowActive' = glow
        /\ lastOp' = [op |-> "update", args |-> <<>>, overSnapshot |-> FALSE]
        /\ UNCHANGED reactions

\* faulty variant: the reset zeroes the display and keeps the event log
resetReactionsKeepsLog ==
    /\ recentReactions' = [confused |-> 0, more |-> 0]
    /\ intensity' = 0
    /\ dominantType' = "null"
    /\ glowActive' = FALSE
    /\ reactions' = reactions
    /\ lastOp' = [op |-> "reset", args |-> <<>>, overSnapshot |-> FALSE]

resetReactions ==
    /\ recentReactions' = [confused |-> 0, more |-> 0]
    /\ intensity' = 0
    /\ dominantType' = "null"
    /\ glowActive' = FALSE
    /\ reactions' = <<>>
    /\ lastOp' = [op |-> "reset", args |-> <<>>, overSnapshot |-> FALSE]

-----------------------------------------------------------------------------
(* Inbound push messages (ReactionMessage) and the subscription callback *)

\* message.body as the text arrives: text that is no JSON, the JSON literal null,
\* a JSON scalar or array (no field at all), or a JSON object with optional fields
ObjectBodies ==
    [kind : {"object"},
     reactionCounts : {{}} \cup {{rc} : rc \in [CONFUSED : NewVals, MORE : NewVals]},
     confusedCount : LegacyVals,
     moreCount : LegacyVals]

Bodies ==
    ObjectBodies \cup
    {[kind |-> k, reactionCounts |-> {}, confusedCount |-> {}, moreCount |-> {}] :
        k \in {"unparseable", "null", "scalar"}}

\* JSON.parse(message.body) throws, or reading a field of the parsed null throws
Throws(body) == body.kind \in {"unparseable", "null"}

\* a?.f : undefined when a is undefined or null
OptChain(a, f) == IF a = {} THEN {} ELSE (CHOOSE r \in a : TRUE)[f]

\* faulty variant: a || b, which also skips 0
NullishOrFalsy(a, b) == IF a = {} \/ a = {0} THEN b ELSE a

\* a ?? b : b when a is undefined or null
Nullish(a, b) == IF a = {} THEN b ELSE a

\* the number a present value holds
ValueOf(a) == CHOOSE v \in a : TRUE

\* data.reactionCounts?.CONFUSED ?? data.confusedCount ?? 0
NormConfused(body) ==
    ValueOf(Nullish(Nullish(OptChain(body.reactionCounts, "CONFUSED"), body.confusedCount), {0}))

\* data.reactionCounts?.MORE ?? data.moreCount ?? 0
NormMore(body) ==
    ValueOf(Nullish(Nullish(OptChain(body.reactionCounts, "MORE"), body.moreCount), {0}))

\* faulty variant: the callback without its try/catch
OnMessageNoCatch(body) ==
    /\ subscribed
    /\ IF Throws(body)
       THEN /\ unhandledFault' = TRUE
            /\ lastMsg' = [body |-> body, outcome |-> "dropped", conn |-> hookLog.connects]
            /\ UNCHANGED <<storeVars, lastOp>>
       ELSE /\ setReactionsFromBackend(NormConfused(body), NormMore(body))
            /\ lastMsg' = [body |-> body, outcome |-> "applied", conn |-> hookLog.connects]
            /\ UNCHANGED unhandledFault
    /\ UNCHANGED <<now, hookVars, viewVars, clickVars, formVars>>

\* the subscription callback: try { parse, normalize, setReactionsFromBackend }
\* catch { console.error }
OnMessage(body) ==
    /\ subscribed
    /\ IF Throws(body)
       THEN /\ lastMsg' = [body |-> body, outcome |-> "dropped", conn |-> hookLog.connects]
            /\ UNCHANGED <<storeVars, lastOp>>
       ELSE /\ setReactionsFromBackend(NormConfused(body), NormMore(body))
            /\ lastMsg' = [body |-> body, outcome |-> "applied", conn |-> hookLog.connects]
    /\ UNCHANGED <<now, unhandledFault, hookVars, viewVars, clickVars, formVars>>

-----------------------------------------------------------------------------
(* The session topic: the broker publishes, the client delivers to the     *)
(* subscription callback in the order of arrival                           *)

\* the broker publishes a body to the topic the client has subscribed to
Publish(body) ==
    /\ subscribed
    /\ sent' = Append(sent, body)
    /\ inflight' = Append(inflight, body)
    /\ UNCHANGED received
    /\ UNCHANGED <<now, storeVars, unhandledFault, lastOp, lastMsg, hookVars, viewVars, clickVars,
                   formVars>>

\* the client gets the oldest body in flight and calls the subscription callback
Receive ==
    /\ inflight # <<>>
    /\ OnMessage(Head(inflight))
    /\ inflight' = Tail(inflight)
    /\ received' = Append(received, [body |-> Head(inflight), outcome |-> lastMsg'.outcome])
    /\ UNCHANGED sent

-----------------------------------------------------------------------------
(* The useWebSocket hook and its STOMP client                              *)
(*                                                                         *)
(* client is the state of the Client object as @stomp/stompjs keeps it:    *)
(*   "none"        no Client has been made                                 *)
(*   "connecting"  active, the socket or the STOMP handshake is under way  *)
(*   "connected"   active, the CONNECTED frame has arrived                 *)
(*   "waiting"     active, the socket is gone, a reconnect is scheduled    *)
(*   "closing"     deactivate() was called while connected: DISCONNECT is  *)
(*                 sent, its receipt is awaited, frames still arrive       *)
(*   "aborting"    deactivate() was called while connecting: the socket is *)
(*                 being closed                                            *)
(*   "inactive"    deactivated, the socket is closed                       *)
(***************************************************************************)

\* client.active
Active(c) == c \in {"connecting", "connected", "waiting"}

\* clientRef.current?.connected
RefConnected == clientRef = "client" /\ client = "connected"

\* what hookLog records for a callback that surfaced nothing
Quiet(handler) ==
    [handler |-> handler, surfaced |-> "none", torndown |-> view = "torndown",
     start |-> NoTimer, cancelled |-> NoTimer, connects |-> hookLog.connects,
     invoked |-> 0]

\* faulty variant: the handle is forgotten, the timeout is left running
ClearErrorTimeoutRefOnly ==
    /\ timers' = timers
    /\ errorTimeoutRef' = NoTimer

\* if (errorTimeoutRef.current) { clearTimeout(errorTimeoutRef.current);
\*                                errorTimeoutRef.current = null; }
ClearErrorTimeout ==
    /\ timers' = timers \ {errorTimeoutRef}
    /\ errorTimeoutRef' = NoTimer

\* faulty variant: the guard of connect reads connected
RefActiveWhenConnected == clientRef = "client" /\ client = "connected"

\* clientRef.current?.active
RefActive == clientRef = "client" /\ Active(client)

\* const connect = useCallback(() => { ... client.activate(); clientRef.current = client })
connect ==
    IF RefActive
    THEN UNCHANGED hookVars
    ELSE /\ ClearErrorTimeout
         /\ client' = "connecting"
         /\ clientRef' = "client"
         /\ hookLog' = [Quiet("connect") EXCEPT !.cancelled = errorTimeoutRef]
         /\ UNCHANGED <<subscribed, isConnected, connectionError>>

\* faulty variant: the client is released without being deactivated
DeactivatedNoOp(c) == c

\* what client.deactivate() makes of the client
Deactivated(c) ==
    CASE c = "connected" -> "closing"
      [] c = "connecting" -> "aborting"
      [] OTHER -> "inactive"

\* const disconnect = useCallback(() => { ... })
disconnect ==
    /\ ClearErrorTimeout
    /\ IF clientRef = "client"
       THEN /\ client' = Deactivated(client)
            /\ clientRef' = "null"
            /\ isConnected' = FALSE
       ELSE UNCHANGED <<client, clientRef, isConnected>>
    /\ hookLog' = [Quiet("disconnect") EXCEPT !.cancelled = errorTimeoutRef]
    /\ UNCHANGED <<subscribed, connectionError>>

\* faulty variant: the handler does not subscribe
onConnectNoSubscribe ==
    /\ client = "connecting"
    /\ hookLog.connects < MaxConnects
    /\ client' = "connected"
    /\ ClearErrorTimeout
    /\ isConnected' = TRUE
    /\ connectionError' = "null"
    /\ subscribed' = FALSE
    /\ hookLog' = [Quiet("onConnect") EXCEPT !.cancelled = errorTimeoutRef,
                                             !.connects = @ + 1,
                                             !.invoked = callbackRefs]
    /\ UNCHANGED clientRef
    /\ UNCHANGED <<now, storeVars, unhandledFault, lastOp, lastMsg, viewVars, clickVars, wireVars, formVars>>

\* Client.onConnect: the CONNECTED frame arrived; clear the grace timer, set the
\* flags, client.subscribe(topic, callback)
onConnect ==
    /\ client = "connecting"
    /\ hookLog.connects < MaxConnects
    /\ client' = "connected"
    /\ ClearErrorTimeout
    /\ isConnected' = TRUE
    /\ connectionError' = "null"
    /\ subscribed' = TRUE
    /\ hookLog' = [Quiet("onConnect") EXCEPT !.cancelled = errorTimeoutRef,
                                             !.connects = @ + 1,
                                             !.invoked = callbackRefs]
    /\ UNCHANGED clientRef
    /\ UNCHANGED <<now, storeVars, unhandledFault, lastOp, lastMsg, viewVars, clickVars, wireVars, formVars>>

\* Client.onDisconnect: the receipt of the DISCONNECT frame that deactivate() sent
onDisconnect ==
    /\ client = "closing"
    /\ client' = "inactive"
    /\ subscribed' = FALSE
    /\ isConnected' = FALSE
    /\ hookLog' = [Quiet("onDisconnect") EXCEPT !.invoked = callbackRefs]
    /\ UNCHANGED <<clientRef, connectionError, errorTimeoutRef, timers>>
    /\ UNCHANGED <<now, storeVars, unhandledFault, lastOp, lastMsg, viewVars, clickVars, wireVars, formVars>>

\* Client.onStompError: an ERROR frame of the broker
onStompError ==
    /\ client \in {"connecting", "connected"}
    /\ connectionError' = "stomp"
    /\ hookLog' = [Quiet("onStompError") EXCEPT !.surfaced = "stomp",
                                                      !.invoked = callbackRefs]
    /\ UNCHANGED <<subscribed, client, clientRef, isConnected, errorTimeoutRef, timers>>
    /\ UNCHANGED <<now, storeVars, unhandledFault, lastOp, lastMsg, viewVars, clickVars, wireVars, formVars>>

\* faulty variant: every transport error starts a timeout of its own
onWebSocketErrorRestarts ==
    /\ client \in {"connecting", "connected", "closing", "aborting"}
    /\ IF ~RefConnected
       THEN /\ errorTimeoutRef' = now
            /\ timers' = (timers \ {errorTimeoutRef}) \cup {now}
       ELSE UNCHANGED <<errorTimeoutRef, timers>>
    /\ hookLog' = Quiet("onWebSocketError")
    /\ UNCHANGED <<subscribed, client, clientRef, isConnected, connectionError>>
    /\ UNCHANGED <<now, storeVars, unhandledFault, lastOp, lastMsg, viewVars, clickVars, wireVars, formVars>>

\* Client.onWebSocketError: an error event of the socket, which may also be that of
\* a socket deactivate() is closing; the timeout handle is its start time
onWebSocketError ==
    /\ client \in {"connecting", "connected", "closing", "aborting"}
    /\ IF errorTimeoutRef = NoTimer /\ ~RefConnected
       THEN /\ errorTimeoutRef' = now
            /\ timers' = timers \cup {now}
       ELSE UNCHANGED <<errorTimeoutRef, timers>>
    /\ hookLog' = Quiet("onWebSocketError")
    /\ UNCHANGED <<subscribed, client, clientRef, isConnected, connectionError>>
    /\ UNCHANGED <<now, storeVars, unhandledFault, lastOp, lastMsg, viewVars, clickVars, wireVars, formVars>>

\* the callback of the grace timeout started at t
errorTimeout(t) ==
    /\ t \in timers
    /\ now - t >= GRACE_PERIOD_MS
    /\ timers' = timers \ {t}
    /\ errorTimeoutRef' = NoTimer
    /\ IF ~RefConnected
       THEN /\ connectionError' = "WebSocket connection failed"
            /\ hookLog' = [Quiet("errorTimeout") EXCEPT !.surfaced = "ws", !.start = t,
                                                           !.invoked = callbackRefs]
       ELSE /\ hookLog' = [Quiet("errorTimeout") EXCEPT !.start = t]
            /\ UNCHANGED connectionError
    /\ UNCHANGED <<subscribed, client, clientRef, isConnected>>
    /\ UNCHANGED <<now, storeVars, unhandledFault, lastOp, lastMsg, viewVars, clickVars, wireVars, formVars>>

\* the socket closes: a drop of the connection while the client is active (the
\* library then schedules a reconnect and calls none of the hook's callbacks), or
\* the end of a deactivation
WebSocketClose ==
    /\ client \in {"connecting", "connected", "closing", "aborting"}
    /\ client' = IF Active(client) THEN "waiting" ELSE "inactive"
    /\ subscribed' = FALSE
    /\ hookLog' = Quiet("close")
    /\ UNCHANGED <<clientRef, isConnected, connectionError, errorTimeoutRef, timers>>
    /\ UNCHANGED <<now, storeVars, unhandledFault, lastOp, lastMsg, viewVars, clickVars, wireVars, formVars>>

\* reconnectDelay: 5000, the library's reconnect timer fires
Reconnect ==
    /\ client = "waiting"
    /\ client' = "connecting"
    /\ hookLog' = Quiet("reconnect")
    /\ UNCHANGED <<subscribed, clientRef, isConnected, connectionError, errorTimeoutRef, timers>>
    /\ UNCHANGED <<now, storeVars, unhandledFault, lastOp, lastMsg, viewVars, clickVars, wireVars, formVars>>

-----------------------------------------------------------------------------
(* The owning page: its effects on mount and their cleanups on unmount *)

\* the setInterval timers a page starts in its mount effects
IntervalsOf(p) ==
    CASE p = "audience" -> {"sweep"}
      [] p = "admin" -> {"clock"}
      [] OTHER -> {}

\* the mount effects: useWebSocket's connect() and the page's setInterval calls
Mount(p) ==
    /\ view = "new"
    /\ view' = "mounted"
    /\ page' = p
    /\ intervals' = IntervalsOf(p)
    /\ connect
    /\ UNCHANGED <<now, storeVars, unhandledFault, lastOp, lastMsg, clickVars, wireVars, formVars>>

\* the effect cleanups: useWebSocket's disconnect() and the page's clearInterval calls
Unmount ==
    /\ view = "mounted"
    /\ view' = "torndown"
    /\ intervals' = {}
    /\ disconnect
    /\ UNCHANGED page
    /\ UNCHANGED <<now, storeVars, unhandledFault, lastOp, lastMsg, clickVars, wireVars, formVars>>

-----------------------------------------------------------------------------
(* Renders of the owning page: new callbacks, a new session id; the        *)
(* reconnect function the hook returns; the clients the hook has replaced  *)

\* faulty variant: connect depends on the callbacks as well
ConnectDepsWithCallbacks(o) == o

\* the dependencies of connect that the options decide: [sessionId, setReactionsFromBackend]
ConnectDeps(o) == o.sessionId

\* the clients let go of, with one more in the state c unless its socket is closed
Retired(list, c) == IF c \in {"none", "inactive"} THEN list ELSE Append(list, c)

\* the effect on [connect, disconnect] when connect has changed: its cleanup,
\* disconnect(), then connect() for the new session
Resubscribe ==
    /\ ClearErrorTimeout
    /\ released' = IF clientRef = "client"
                   THEN Retired(released, Deactivated(client))
                   ELSE Retired(released, client)
    /\ client' = "connecting"
    /\ clientRef' = "client"
    /\ isConnected' = FALSE
    /\ subscribed' = FALSE
    /\ hookLog' = [Quiet("connect") EXCEPT !.cancelled = errorTimeoutRef]
    /\ UNCHANGED connectionError

\* the page renders again and passes the options o: the effect on the callbacks
\* stores them in the refs, the effect on [connect, disconnect] runs if connect
\* is a new function
Render(o) ==
    /\ view = "mounted"
    /\ options' = o
    /\ callbackRefs' = o.callbacks
    /\ IF ConnectDeps(o) # ConnectDeps(options)
       THEN Resubscribe
       ELSE UNCHANGED <<hookVars, released>>
    /\ UNCHANGED <<now, storeVars, unhandledFault, lastOp, lastMsg, viewVars, clickVars,
                   wireVars, questionVars, joinVars, dashVars, admin>>

\* reconnect: connect, as the hook returns it to its caller
reconnect ==
    /\ view # "new"
    /\ released' = IF RefActive THEN released ELSE Retired(released, client)
    /\ connect
    /\ UNCHANGED <<options, callbackRefs>>
    /\ UNCHANGED <<now, storeVars, unhandledFault, lastOp, lastMsg, viewVars, clickVars,
                   wireVars, questionVars, joinVars, dashVars, admin>>

\* the list without its element at position i
Without(list, i) == SubSeq(list, 1, i - 1) \o SubSeq(list, i + 1, Len(list))

\* Client.onDisconnect of a client let go of: the receipt of its DISCONNECT frame
releasedOnDisconnect(i) ==
    /\ i \in DOMAIN released
    /\ released[i] = "closing"
    /\ released' = Without(released, i)
    /\ isConnected' = FALSE
    /\ hookLog' = [Quiet("onDisconnect") EXCEPT !.invoked = callbackRefs]
    /\ UNCHANGED <<subscribed, client, clientRef, connectionError, errorTimeoutRef, timers>>
    /\ UNCHANGED <<options, callbackRefs>>
    /\ UNCHANGED <<now, storeVars, unhandledFault, lastOp, lastMsg, viewVars, clickVars,
                   wireVars, questionVars, joinVars, dashVars, admin>>

\* Client.onWebSocketError of a client let go of
releasedOnWebSocketError(i) ==
    /\ i \in DOMAIN released
    /\ released[i] # "waiting"
    /\ IF errorTimeoutRef = NoTimer /\ ~RefConnected
       THEN /\ errorTimeoutRef' = now
            /\ timers' = timers \cup {now}
       ELSE UNCHANGED <<errorTimeoutRef, timers>>
    /\ hookLog' = Quiet("onWebSocketError")
    /\ UNCHANGED <<subscribed, client, clientRef, isConnected, connectionError>>
    /\ UNCHANGED sessionVars
    /\ UNCHANGED <<now, storeVars, unhandledFault, lastOp, lastMsg, viewVars, clickVars,
                   wireVars, questionVars, joinVars, dashVars, admin>>

\* the socket of a client let go of closes: the end of its deactivation, or a drop
\* if it is still active
releasedWebSocketClose(i) ==
    /\ i \in DOMAIN released
    /\ released[i] # "waiting"
    /\ released' = IF Active(released[i])
                   THEN [released EXCEPT ![i] = "waiting"]
                   ELSE Without(released, i)
    /\ UNCHANGED <<hookVars, options, callbackRefs>>
    /\ UNCHANGED <<now, storeVars, unhandledFault, lastOp, lastMsg, viewVars, clickVars,
                   wireVars, questionVars, joinVars, dashVars, admin>>

-----------------------------------------------------------------------------
(* AudiencePage: the click handler and the sweep of the click window *)

\* faulty variant: a click exactly 5000 ms old is kept
RecentClicksInclusive(clicks, t) == SelectSeq(clicks, LAMBDA ts : t - ts <= CLICK_WINDOW_MS)

\* clickTimestamps.filter((ts) => now - ts < 5000)
RecentClicks(clicks, t) == SelectSeq(clicks, LAMBDA ts : t - ts < CLICK_WINDOW_MS)

\* sendMessage(getReactionDestination(), { sessionId, type }): one frame sent over
\* the live channel; att is the count of deliveries started
sendMessage(att) == [att EXCEPT !.channel = @ + 1]

\* sendReactionHttp(sessionId, type): one POST /api/reactions
sendReactionHttp(att) == [att EXCEPT !.http = @ + 1]

\* faulty variant: the reaction always goes by HTTP
DeliveryHttpOnly(connected) == "http"

\* if (isConnected) { sendMessage(...) } else { await sendReactionHttp(...) }
Delivery(connected) == IF connected THEN "channel" ELSE "http"

\* faulty variant: the feedback is shown on every rapid click
FeedbackOnEveryRapid(isRapidClick, n) == isRapidClick

\* if (isRapidClick && newClicks.length === 5) setLastClickFeedback(...)
Feedback(isRapidClick, n) == isRapidClick /\ n = 5

\* const handleReaction = useCallback(async (type, e) => { ... }); the handler does
\* not call the reaction store
handleReaction(type) ==
    LET recentClicks == RecentClicks(clickTimestamps, now)
        newClicks == Append(recentClicks, now)
        isRapidClick == Len(newClicks) >= RAPID_CLICK_COUNT
        feedback == Feedback(isRapidClick, Len(newClicks))
        via == Delivery(isConnected)
    IN  /\ view = "mounted"
        /\ page = "audience"
        /\ clickTimestamps' = newClicks
        /\ feedbackCount' = IF feedback THEN feedbackCount + 1 ELSE feedbackCount
        /\ attempts' = IF via = "channel" THEN sendMessage(attempts)
                       ELSE sendReactionHttp(attempts)
        /\ lastClick' = [isRapid |-> isRapidClick, count |-> Len(newClicks),
                         feedback |-> feedback, connected |-> isConnected, via |-> via]
        /\ clickLog' = Append(clickLog, now)
        /\ clickedTypes' = clickedTypes \cup {type}
        /\ UNCHANGED <<now, unhandledFault, lastMsg, hookVars, viewVars, wireVars, formVars>>

\* the local path of the data flow: a click is classified, and the reaction is
\* recorded in the store with the classifier's verdict
RecordedClick(type) ==
    /\ handleReaction(type)
    /\ addReaction(type, lastClick'.isRapid)

\* faulty variant: the sweep also resets the reaction store
SweepResetsStore ==
    /\ "sweep" \in intervals
    /\ clickTimestamps' = RecentClicks(clickTimestamps, now)
    /\ resetReactions
    /\ UNCHANGED <<clickLog, clickedTypes, lastClick, feedbackCount, attempts>>
    /\ UNCHANGED <<now, unhandledFault, lastMsg, hookVars, viewVars, wireVars, formVars>>

\* the callback of setInterval(..., 1000): setClickTimestamps(prev => prev.filter(...))
Sweep ==
    /\ "sweep" \in intervals
    /\ clickTimestamps' = RecentClicks(clickTimestamps, now)
    /\ UNCHANGED <<clickLog, clickedTypes, lastClick, feedbackCount, attempts>>
    /\ UNCHANGED <<now, storeVars, unhandledFault, lastOp, lastMsg, hookVars, viewVars, wireVars, formVars>>

-----------------------------------------------------------------------------
(* AudiencePage: the question form *)

\* String.prototype.trim, at the start of the text
RECURSIVE TrimStart(_)
TrimStart(text) ==
    IF text # <<>> /\ Head(text) = " " THEN TrimStart(Tail(text)) ELSE text

\* String.prototype.trim, at the end of the text
RECURSIVE TrimEnd(_)
TrimEnd(text) ==
    IF text # <<>> /\ text[Len(text)] = " "
    THEN TrimEnd(SubSeq(text, 1, Len(text) - 1))
    ELSE text

\* question.trim()
Trim(text) == TrimEnd(TrimStart(text))

\* onChange={(e) => setQuestion(e.target.value)}
setQuestion(value) ==
    /\ view = "mounted"
    /\ page = "audience"
    /\ question' = value
    /\ UNCHANGED <<isSubmitting, sentQuestions, pendingQuestion, lastSubmit>>
    /\ UNCHANGED <<now, storeVars, unhandledFault, lastOp, lastMsg, hookVars, viewVars, clickVars,
                   wireVars, joinVars, pageVars>>

\* createQuestion(sessionId, text): resolves with the JSON of a 2xx response, throws
\* 'Failed to create question' for another status, rejects when fetch does
createQuestion(response) == IF response = "ok" THEN "resolved" ELSE "rejected"

\* const newQuestion = { id: Date.now().toString(), text: question.trim(),
\*                       timestamp: Date.now() }; question is that of the closure
NewQuestion(text) == [id |-> now, text |-> Trim(text), timestamp |-> now]

\* handleSubmitQuestion up to its await; the submit button is disabled while
\* isSubmitting || !question.trim()
handleSubmitQuestion ==
    /\ view = "mounted"
    /\ page = "audience"
    /\ ~isSubmitting
    /\ IF Trim(question) = <<>>
       THEN UNCHANGED <<isSubmitting, pendingQuestion>>
       ELSE /\ isSubmitting' = TRUE
            /\ pendingQuestion' = {question}
    /\ UNCHANGED <<question, sentQuestions, lastSubmit>>
    /\ UNCHANGED <<now, storeVars, unhandledFault, lastOp, lastMsg, hookVars, viewVars, clickVars,
                   wireVars, joinVars, pageVars>>

\* faulty variant: the catch block only logs the failure
handleSubmitQuestionSettledCatchLogs(response) ==
    /\ view = "mounted"
    /\ pendingQuestion # {}
    /\ LET text == CHOOSE t \in pendingQuestion : TRUE
           outcome == createQuestion(response)
       IN  /\ IF outcome = "resolved"
              THEN /\ sentQuestions' = <<NewQuestion(text)>> \o sentQuestions
                   /\ question' = <<>>
              ELSE UNCHANGED <<sentQuestions, question>>
           /\ isSubmitting' = FALSE
           /\ lastSubmit' = [outcome |-> outcome, text |-> text]
    /\ pendingQuestion' = {}
    /\ UNCHANGED <<now, storeVars, unhandledFault, lastOp, lastMsg, hookVars, viewVars, clickVars,
                   wireVars, joinVars, pageVars>>

\* handleSubmitQuestion after its await: the rest of the try block when
\* createQuestion resolved, the catch block when it threw, then the finally block
handleSubmitQuestionSettled(response) ==
    /\ view = "mounted"
    /\ pendingQuestion # {}
    /\ LET text == CHOOSE t \in pendingQuestion : TRUE
           outcome == createQuestion(response)
       IN  /\ IF outcome = "resolved"
              THEN /\ sentQuestions' = <<NewQuestion(text)>> \o sentQuestions
                   /\ question' = <<>>
              ELSE /\ sentQuestions' = <<NewQuestion(text)>> \o sentQuestions
                   /\ question' = <<>>
           /\ isSubmitting' = FALSE
           /\ lastSubmit' = [outcome |-> outcome, text |-> text]
    /\ pendingQuestion' = {}
    /\ UNCHANGED <<now, storeVars, unhandledFault, lastOp, lastMsg, hookVars, viewVars, clickVars,
                   wireVars, joinVars, pageVars>>

\* sentQuestions.slice(0, 3)
displayedQuestions ==
    SubSeq(sentQuestions, 1, IF Len(sentQuestions) < 3 THEN Len(sentQuestions) ELSE 3)

\* faulty variant: the count is taken one too high
remainingCountOneMore == Len(sentQuestions) - 3 + 1

\* sentQuestions.length - 3
remainingCount == Len(sentQuestions) - 3

\* {remainingCount > 0 && <button>{remainingCount} more</button>}
moreButton == remainingCount > 0

-----------------------------------------------------------------------------
(* JoinPage: the six inputs of the session code and the join button *)

\* the characters /[a-zA-Z0-9]/ matches, among those of SlotValues
Alphanumeric == {"a", "b", "A", "B", "1"}

\* value.replace(/[^a-zA-Z0-9]/g, '')
Sanitize(value) == SelectSeq(value, LAMBDA c : c \in Alphanumeric)

\* String.prototype.toUpperCase
ToUpperCase(text) ==
    [i \in 1..Len(text) |-> CASE text[i] = "a" -> "A"
                              [] text[i] = "b" -> "B"
                              [] OTHER -> text[i]]

\* code.join('')
RECURSIVE JoinFrom(_, _)
JoinFrom(slots, index) ==
    IF index > 5 THEN <<>> ELSE slots[index] \o JoinFrom(slots, index + 1)

\* const fullCode = code.join('')
fullCode == JoinFrom(code, 0)

\* getSessionByCode(code): resolves with the session descriptor, throws
\* 'Session not found' when the response is not ok
getSessionByCode(sessionCode) ==
    IF sessionCode \in Sessions THEN "resolved" ELSE "rejected"

\* const handleCodeChange = (index, value) => { ... }
handleCodeChange(index, value) ==
    LET sanitized == Sanitize(value)
    IN  /\ route.page = "join"
        /\ IF Len(sanitized) > 1
           THEN UNCHANGED code
           ELSE code' = [code EXCEPT ![index] = ToUpperCase(sanitized)]
        /\ UNCHANGED <<isLoading, error, route>>
        /\ UNCHANGED <<now, storeVars, unhandledFault, lastOp, lastMsg, hookVars, viewVars,
                       clickVars, wireVars, questionVars,
                       pageVars>>

\* const handleJoin = async () => { ... }: the code is not looked up, navigate is
\* called for every code of six characters
handleJoin ==
    LET sessionCode == JoinFrom(code, 0)
    IN  /\ route.page = "join"
        /\ IF Len(sessionCode) # 6
           THEN /\ error' = "enter the 6-character code"
                /\ UNCHANGED <<isLoading, route>>
           ELSE /\ error' = "null"
                /\ route' = [page |-> "session", sessionCode |-> sessionCode]
                /\ isLoading' = FALSE
        /\ UNCHANGED code
        /\ UNCHANGED <<now, storeVars, unhandledFault, lastOp, lastMsg, hookVars, viewVars,
                       clickVars, wireVars, questionVars,
                       pageVars>>

\* the browser goes back to the join page, which is mounted anew
Back ==
    /\ route.page = "session"
    /\ route' = [page |-> "join", sessionCode |-> <<>>]
    /\ code' = [index \in 0..5 |-> <<>>]
    /\ isLoading' = FALSE
    /\ error' = "null"
    /\ UNCHANGED <<now, storeVars, unhandledFault, lastOp, lastMsg, hookVars, viewVars,
                   clickVars, wireVars, questionVars,
                       pageVars>>

-----------------------------------------------------------------------------
(* DashboardPage: the question list, the checked ids and their persistence *)
(*                                                                         *)
(* A listed question is [id, checked]; the backend holds the questions     *)
(* 1..api.questions and answers getQuestions with all of them, newest      *)
(* first. checkedIds is a Set, kept as the sequence of its elements in     *)
(* insertion order; localStorage holds the JSON array written from it.     *)

\* questions.map(q => q.id), as a set
Ids(list) == {list[i].id : i \in DOMAIN list}

\* Set.prototype.has
Has(set, id) == \E i \in DOMAIN set : set[i] = id

\* new Set(array): the elements of the array, each once, in the order of their
\* first occurrence
RECURSIVE NewSet(_)
NewSet(array) ==
    IF array = <<>> THEN <<>>
    ELSE LET front == NewSet(SubSeq(array, 1, Len(array) - 1))
             last == array[Len(array)]
         IN IF Has(front, last) THEN front ELSE Append(front, last)

\* const stored = localStorage.getItem(key); stored ? new Set(JSON.parse(stored)) : new Set()
LoadCheckedIds(stored) == NewSet(stored)

\* JSON.stringify([...checkedIds])
StoreCheckedIds(set) == set

\* faulty variant: an id is added and never removed
ToggledAddOnly(set, id) == IF Has(set, id) THEN set ELSE Append(set, id)

\* the updater of setCheckedIds: newSet.delete(id) if the set has it, else newSet.add(id)
Toggled(set, id) ==
    IF Has(set, id) THEN SelectSeq(set, LAMBDA x : x # id) ELSE Append(set, id)

\* faulty variant: a fetched question is listed unchecked
WithCheckedFalse(ids, set) == [i \in DOMAIN ids |-> [id |-> ids[i], checked |-> FALSE]]

\* data.map(q => ({ ...q, checked: checkedIdsRef.current.has(q.id) }))
WithChecked(ids, set) == [i \in DOMAIN ids |-> [id |-> ids[i], checked |-> Has(set, ids[i])]]

\* the updater of setQuestions in handleToggleQuestion
Flipped(list, id) ==
    [i \in DOMAIN list |-> IF list[i].id = id
                           THEN [list[i] EXCEPT !.checked = ~@]
                           ELSE list[i]]

\* the component state after handleToggleQuestion(id)
ToggleQuestion(d, id) ==
    [d EXCEPT !.questions = Flipped(@, id), !.checkedIds = Toggled(@, id)]

\* handleToggleQuestion(id), and the effect on checkedIds that persists them
handleToggleQuestion(id) ==
    /\ dashboard' = ToggleQuestion(dashboard, id)
    /\ localStorage' = StoreCheckedIds(dashboard'.checkedIds)
    /\ UNCHANGED api
    /\ UNCHANGED <<now, storeVars, unhandledFault, lastOp, lastMsg, hookVars, viewVars,
                   clickVars, wireVars, questionVars, joinVars, sessionVars, admin>>

\* getQuestions(): the ids of the backend's questions, newest first
Data == [i \in 1..api.questions |-> api.questions + 1 - i]

\* getQuestions(): resolves with the JSON of a 2xx response, throws 'Failed to fetch
\* questions' for another status, rejects when fetch does
getQuestions(response) == IF response = "ok" THEN "resolved" ELSE "rejected"

\* hasFetchedOnce.current && !forceRefresh && questions.length > 0
Incremental(d, forceRefresh) == d.hasFetchedOnce /\ ~forceRefresh /\ Len(d.questions) > 0

\* fetchQuestions(forceRefresh) up to its await, called in the component state d; the
\* call awaited keeps the branch taken and the questions of its closure
fetchQuestions(d, forceRefresh) ==
    IF Incremental(d, forceRefresh)
    THEN /\ dashboard' = d
         /\ api' = [api EXCEPT !.calls = @ + 1,
                               !.pending = Append(@, [branch |-> "incremental",
                                                      existingIds |-> Ids(d.questions)])]
    ELSE /\ dashboard' = [d EXCEPT !.isLoadingQuestions = TRUE]
         /\ api' = [api EXCEPT !.calls = @ + 1,
                               !.pending = Append(@, [branch |-> "full",
                                                      existingIds |-> {}])]

\* the footer's question button: setShowQuestionsModal(true), and the effect on
\* showQuestionsModal that calls fetchQuestions(false)
OpenModal ==
    /\ ~dashboard.showQuestionsModal
    /\ fetchQuestions([dashboard EXCEPT !.showQuestionsModal = TRUE], FALSE)
    /\ UNCHANGED localStorage
    /\ UNCHANGED <<now, storeVars, unhandledFault, lastOp, lastMsg, hookVars, viewVars,
                   clickVars, wireVars, questionVars, joinVars, sessionVars, admin>>

\* the modal's close button or its backdrop: setShowQuestionsModal(false)
CloseModal ==
    /\ dashboard.showQuestionsModal
    /\ dashboard' = [dashboard EXCEPT !.showQuestionsModal = FALSE]
    /\ UNCHANGED <<localStorage, api>>
    /\ UNCHANGED <<now, storeVars, unhandledFault, lastOp, lastMsg, hookVars, viewVars,
                   clickVars, wireVars, questionVars, joinVars, sessionVars, admin>>

\* the modal's refresh button, disabled={isLoadingQuestions}: fetchQuestions(true)
Refresh ==
    /\ dashboard.showQuestionsModal
    /\ ~dashboard.isLoadingQuestions
    /\ fetchQuestions(dashboard, TRUE)
    /\ UNCHANGED localStorage
    /\ UNCHANGED <<now, storeVars, unhandledFault, lastOp, lastMsg, hookVars, viewVars,
                   clickVars, wireVars, questionVars, joinVars, sessionVars, admin>>

\* fetchQuestions after its await, for the call at position i of those awaited
fetchQuestionsSettled(i, response) ==
    /\ i \in DOMAIN api.pending
    /\ LET call == api.pending[i]
           newQuestions == SelectSeq(Data, LAMBDA q : q \notin call.existingIds)
       IN dashboard' =
            CASE call.branch = "incremental" /\ getQuestions(response) = "resolved" ->
                   IF Len(newQuestions) > 0
                   THEN [dashboard EXCEPT !.questions =
                            WithChecked(newQuestions, dashboard.checkedIds) \o @]
                   ELSE dashboard
              [] call.branch = "incremental" -> dashboard
              [] getQuestions(response) = "resolved" ->
                   [dashboard EXCEPT !.questions = WithChecked(Data, dashboard.checkedIds),
                                     !.hasFetchedOnce = TRUE,
                                     !.isLoadingQuestions = FALSE]
              [] OTHER -> [dashboard EXCEPT !.isLoadingQuestions = FALSE]
    /\ api' = [api EXCEPT !.pending = SubSeq(@, 1, i - 1) \o SubSeq(@, i + 1, Len(@))]
    /\ UNCHANGED localStorage
    /\ UNCHANGED <<now, storeVars, unhandledFault, lastOp, lastMsg, hookVars, viewVars,
                   clickVars, wireVars, questionVars, joinVars, sessionVars, admin>>

\* an audience member's question reaches the backend (createQuestion of api.ts)
QuestionPosted ==
    /\ api' = [api EXCEPT !.questions = @ + 1]
    /\ UNCHANGED <<dashboard, localStorage>>
    /\ UNCHANGED <<now, storeVars, unhandledFault, lastOp, lastMsg, hookVars, viewVars,
                   clickVars, wireVars, questionVars, joinVars, sessionVars, admin>>

\* the page is loaded again: the useState initializers run, checkedIds from
\* localStorage; the effect on checkedIds writes them back; the calls the old
\* document awaited are gone with it
LoadDashboard ==
    /\ dashboard' = [showQuestionsModal |-> FALSE, questions |-> <<>>,
                     isLoadingQuestions |-> FALSE, hasFetchedOnce |-> FALSE,
                     checkedIds |-> LoadCheckedIds(localStorage)]
    /\ localStorage' = StoreCheckedIds(dashboard'.checkedIds)
    /\ api' = [api EXCEPT !.pending = <<>>]
    /\ UNCHANGED <<now, storeVars, unhandledFault, lastOp, lastMsg, hookVars, viewVars,
                   clickVars, wireVars, questionVars, joinVars, sessionVars, admin>>

-----------------------------------------------------------------------------
(* AdminPage: the tracked peaks and the session controls *)
(*                                                                         *)
(* sessionStartTime and sessionEndTime are {} for null or hold the time;   *)
(* deps holds the scores the peak effect last ran with, {} before its      *)
(* first run; confirm is the answer the last confirm dialog got.           *)

\* Math.max
Max(a, b) == IF a >= b THEN a ELSE b

\* const isSessionRunning = sessionStartTime && !sessionEndTime
isSessionRunning == admin.sessionStartTime # {} /\ admin.sessionEndTime = {}

\* faulty variant: the start button is also rendered for an ended session
startButtonAfterEnd == ~isSessionRunning

\* {!isSessionRunning && !sessionEndTime && <Button onClick={handleStartSession}>}
startButton == ~isSessionRunning /\ admin.sessionEndTime = {}

\* {isSessionRunning && <Button onClick={handleEndSession}>}
endButton == isSessionRunning

\* the dependencies of the peak effect: [recentReactions.confused, recentReactions.more]
PeakDeps == <<recentReactions.confused, recentReactions.more>>

\* useEffect(() => { setPeakConfused(prev => Math.max(prev, recentReactions.confused));
\*                   setPeakMore(prev => Math.max(prev, recentReactions.more)) }, deps):
\* it runs after the first render and after a render in which a dependency changed
peakEffect ==
    /\ view = "mounted"
    /\ page = "admin"
    /\ admin.deps # {PeakDeps}
    /\ admin' = [admin EXCEPT !.peakConfused = Max(@, recentReactions.confused),
                              !.peakMore = Max(@, recentReactions.more),
                              !.deps = {PeakDeps}]
    /\ UNCHANGED <<now, storeVars, unhandledFault, lastOp, lastMsg, hookVars, viewVars,
                   clickVars, wireVars, questionVars, joinVars, sessionVars, dashVars>>

\* const handleStartSession = () => { ... }
handleStartSession ==
    /\ admin' = [admin EXCEPT !.sessionStartTime = {now},
                              !.sessionEndTime = {},
                              !.peakConfused = 0,
                              !.peakMore = 0]
    /\ UNCHANGED <<now, storeVars, unhandledFault, lastOp, lastMsg, hookVars, viewVars,
                   clickVars, wireVars, questionVars, joinVars, sessionVars, dashVars>>

\* const handleEndSession = () => { ... }, with the answer given to confirm()
handleEndSession(answer) ==
    /\ admin' = IF admin.sessionStartTime = {}
                THEN admin
                ELSE IF answer = "declined"
                     THEN [admin EXCEPT !.confirm = answer]
                     ELSE [admin EXCEPT !.confirm = answer, !.sessionEndTime = {now}]
    /\ UNCHANGED <<now, storeVars, unhandledFault, lastOp, lastMsg, hookVars, viewVars,
                   clickVars, wireVars, questionVars, joinVars, sessionVars, dashVars>>

-----------------------------------------------------------------------------
(* Specifications *)

AddAny ==
    /\ Len(Prune(reactions, now)) < MaxLog
    /\ \E type \in ReactionType, isRapidClick \in BOOLEAN : addReaction(type, isRapidClick)
    /\ UNCHANGED envVars

SnapshotAny ==
    /\ \E s \in Snapshots : setReactionsFromBackend(s[1], s[2])
    /\ UNCHANGED envVars

UpdateAny ==
    /\ \E type \in ReactionType, count \in CountVals, i \in IntensityVals :
          updateReactions(type, count, i)
    /\ UNCHANGED envVars

ResetAny ==
    /\ resetReactions
    /\ UNCHANGED envVars

\* the store under every interleaving of its four operations
NextStore ==
    \/ Tick
    \/ AddAny
    \/ SnapshotAny
    \/ UpdateAny
    \/ ResetAny

SpecStore == Init /\ [][NextStore]_vars

\* the local path alone: reactions and the passage of time; the clock always advances
NextLocal ==
    \/ Tick
    \/ AddAny

SpecLocal == Init /\ [][NextLocal]_vars /\ WF_vars(Tick)

MessageAny ==
    /\ \E body \in Bodies : OnMessage(body)
    /\ UNCHANGED wireVars

MountDashboard == Mount("dashboard")

\* the push channel feeding the store while the audience reacts locally
NextChannel ==
    \/ MountDashboard
    \/ onConnect
    \/ MessageAny
    \/ AddAny

SpecChannel == Init /\ [][NextChannel]_vars

MountAudience == Mount("audience")

ClickAny ==
    /\ Len(clickLog) < MaxClicks
    /\ \E type \in ReactionType : handleReaction(type)
    /\ UNCHANGED <<storeVars, lastOp>>

TickClick == TickIn(ClickInstants)

\* the audience page: clicks, the sweep, and the channel coming up
NextAudience ==
    \/ MountAudience
    \/ onConnect
    \/ ClickAny
    \/ Sweep
    \/ TickClick

SpecAudience == Init /\ [][NextAudience]_vars

RecordedClickAny ==
    /\ Len(clickLog) < MaxClicks
    /\ \E type \in ReactionType : RecordedClick(type)

TickScenario == TickIn(ScenarioInstants)

\* the local path: every click of the audience page recorded in the store
NextLocalPath ==
    \/ MountAudience
    \/ RecordedClickAny
    \/ TickScenario

SpecLocalPath == Init /\ [][NextLocalPath]_vars

\* the bodies the hook's lifecycle is exercised with: one that throws, one snapshot
ConnBodies ==
    {b \in Bodies : \/ b.kind = "unparseable"
                     \/ /\ b.kind = "object"
                        /\ b.reactionCounts = {[CONFUSED |-> {7}, MORE |-> {0}]}
                        /\ b.confusedCount = {}
                        /\ b.moreCount = {}}

MountAny == \E p \in Pages : Mount(p)

MessageConn ==
    /\ \E body \in ConnBodies : OnMessage(body)
    /\ UNCHANGED wireVars

ErrorTimeoutAny == \E t \in timers : errorTimeout(t)

TickConn == TickIn(ConnInstants)

\* the life of one hook: mount, the client's callbacks, the grace timer, unmount;
\* the library's reconnect timer does fire
NextConn ==
    \/ MountAny
    \/ Unmount
    \/ onConnect
    \/ onDisconnect
    \/ onStompError
    \/ onWebSocketError
    \/ ErrorTimeoutAny
    \/ WebSocketClose
    \/ Reconnect
    \/ MessageConn
    \/ TickConn

SpecConn == Init /\ [][NextConn]_vars /\ WF_vars(Reconnect)

SnapshotGlowing ==
    /\ setReactionsFromBackend(7, 2)
    /\ UNCHANGED envVars

UpdateDemo ==
    /\ updateReactions("more", 5, 100)
    /\ UNCHANGED envVars

\* the event log under every interleaving of the four operations, with one snapshot
\* and one demo update
NextLog ==
    \/ Tick
    \/ AddAny
    \/ SnapshotGlowing
    \/ UpdateDemo
    \/ ResetAny

SpecLog == Init /\ [][NextLog]_vars

\* the bodies the topic is exercised with: one that throws, a new-format snapshot,
\* a legacy snapshot and an object without counts
ReceiptBodies ==
    {b \in Bodies :
        \/ b.kind = "unparseable"
        \/ /\ b.kind = "object"
           /\ \/ /\ b.reactionCounts = {[CONFUSED |-> {7}, MORE |-> {0}]}
                 /\ b.confusedCount = {} /\ b.moreCount = {}
              \/ /\ b.reactionCounts = {}
                 /\ b.confusedCount = {5} /\ b.moreCount = {5}
              \/ /\ b.reactionCounts = {}
                 /\ b.confusedCount = {} /\ b.moreCount = {}}

PublishAny ==
    /\ Len(sent) < MaxMessages
    /\ \E body \in ReceiptBodies : Publish(body)

\* the remote path alone: the dashboard subscribed to its topic
NextReceipt ==
    \/ MountDashboard
    \/ onConnect
    \/ PublishAny
    \/ Receive

SpecReceipt == Init /\ [][NextReceipt]_vars

TypeAny == \E value \in Texts : setQuestion(value)

SubmitAny ==
    /\ Len(sentQuestions) < MaxQuestions
    /\ handleSubmitQuestion

SettleAny == \E response \in Responses : handleSubmitQuestionSettled(response)

TickQuestion == TickIn(QuestionInstants)

\* the question form of the audience page
NextQuestions ==
    \/ MountAudience
    \/ TypeAny
    \/ SubmitAny
    \/ SettleAny
    \/ TickQuestion

SpecQuestions == Init /\ [][NextQuestions]_vars

ChangeAny == \E index \in 0..5, value \in SlotValues : handleCodeChange(index, value)

\* <Button onClick={handleJoin} disabled={isLoading || fullCode.length !== 6}>
JoinClick ==
    /\ ~isLoading
    /\ Len(fullCode) = 6
    /\ handleJoin

\* the join page
NextJoin ==
    \/ ChangeAny
    \/ JoinClick
    \/ Back

SpecJoin == Init /\ [][NextJoin]_vars

ClickFew ==
    /\ Len(clickLog) < MaxSideClicks
    /\ \E type \in ReactionType : handleReaction(type)
    /\ UNCHANGED <<storeVars, lastOp>>

AddFew ==
    /\ Len(reactions) < MaxSideLog
    /\ \E type \in ReactionType, isRapidClick \in BOOLEAN : addReaction(type, isRapidClick)
    /\ UNCHANGED envVars

TickSide == TickIn(SideInstants)

\* the click window of the audience page next to the store and its four operations
NextSide ==
    \/ MountAudience
    \/ ClickFew
    \/ Sweep
    \/ AddFew
    \/ SnapshotGlowing
    \/ UpdateDemo
    \/ ResetAny
    \/ TickSide

SpecSide == Init /\ [][NextSide]_vars

\* the options of a next render: new callbacks, as the inline functions of the
\* pages are on every render, a new session id, or both
NextOptions ==
    {o \in [sessionId : {options.sessionId, options.sessionId + 1},
            callbacks : {options.callbacks, options.callbacks + 1}] :
        /\ o # options
        /\ o.sessionId <= MaxSessions
        /\ o.callbacks <= MaxCallbacks}

RenderAny == \E o \in NextOptions : Render(o)

ReleasedEventAny ==
    \E i \in DOMAIN released :
        \/ releasedOnDisconnect(i)
        \/ releasedOnWebSocketError(i)
        \/ releasedWebSocketClose(i)

\* the life of one hook under renders of its page that change the callbacks or the
\* session id, with calls of the reconnect function it returns
NextSession ==
    \/ MountDashboard
    \/ Unmount
    \/ RenderAny
    \/ reconnect
    \/ onConnect
    \/ onDisconnect
    \/ onStompError
    \/ onWebSocketError
    \/ ErrorTimeoutAny
    \/ WebSocketClose
    \/ Reconnect
    \/ ReleasedEventAny
    \/ TickConn

SpecSession == Init /\ [][NextSession]_vars

MountAdmin == Mount("admin")

StartClick ==
    /\ view = "mounted"
    /\ page = "admin"
    /\ startButton
    /\ handleStartSession

EndClick ==
    /\ view = "mounted"
    /\ page = "admin"
    /\ endButton
    /\ \E answer \in {"accepted", "declined"} : handleEndSession(answer)

TickAdmin == TickIn(AdminInstants)

\* the admin page next to the store: snapshots change the scores, the peak effect
\* follows them, the presenter starts and ends the session
NextAdmin ==
    \/ MountAdmin
    \/ SnapshotAny
    \/ peakEffect
    \/ StartClick
    \/ EndClick
    \/ TickAdmin

SpecAdmin == Init /\ [][NextAdmin]_vars

OpenAny ==
    /\ api.calls < MaxFetches
    /\ OpenModal

RefreshAny ==
    /\ api.calls < MaxFetches
    /\ Refresh

\* a click on a question of the list, which is shown when the modal is open and no
\* full fetch is loading
ToggleAny ==
    /\ dashboard.showQuestionsModal
    /\ ~dashboard.isLoadingQuestions
    /\ \E id \in Ids(dashboard.questions) : handleToggleQuestion(id)

FetchSettledAny ==
    \E i \in DOMAIN api.pending, response \in Responses : fetchQuestionsSettled(i, response)

PostAny ==
    /\ api.questions < MaxPosted
    /\ QuestionPosted

\* the presenter's question list: the modal, the refresh button, the toggles, the
\* awaited fetches settling in any order, questions arriving at the backend, the
\* demo buttons of the page, and a reload of the page
NextDashboard ==
    \/ OpenAny
    \/ CloseModal
    \/ RefreshAny
    \/ ToggleAny
    \/ FetchSettledAny
    \/ PostAny
    \/ LoadDashboard
    \/ UpdateDemo

SpecDashboard == Init /\ [][NextDashboard]_vars

-----------------------------------------------------------------------------
(* Vocabulary of the claims *)

\* sum of the points of the logged events of type k with t - timestamp < 30000
RECURSIVE WindowPointsFrom(_, _, _, _)
WindowPointsFrom(log, i, k, t) ==
    IF i > Len(log) THEN 0
    ELSE (IF log[i].type = k /\ t - log[i].timestamp < 30000 THEN log[i].points ELSE 0)
         + WindowPointsFrom(log, i + 1, k, t)

WindowPoints(k, t) == WindowPointsFrom(reactions, 1, k, t)

\* every logged event is 30 seconds old or older
AllExpired == \A i \in 1..Len(reactions) : now - reactions[i].timestamp >= 30000

\* no logged event is 30 seconds old or older
NoneExpired == \A i \in 1..Len(reactions) : now - reactions[i].timestamp < 30000

\* the displayed scores are the sums of the points in the log
LogDerived ==
    \A k \in ReactionType : recentReactions[k] = WindowPointsFrom(reactions, 1, k, 0)

-----------------------------------------------------------------------------
(* C1 *)

\* C1: in every reachable state of the store, whatever sequence of addReaction,
\* setReactionsFromBackend, updateReactions and resetReactions produced it,
\* glowActive is true exactly when the confused score or the more score is >= 5.
C1_GlowIffThreshold ==
    glowActive <=> (recentReactions.confused >= 5 \/ recentReactions.more >= 5)

\* the glow is on through the more score alone, after a local reaction
C1_Witness ==
    /\ lastOp.op = "add"
    /\ glowActive
    /\ recentReactions.confused < 5
    /\ recentReactions.more >= 5

-----------------------------------------------------------------------------
(* C2 *)

-----------------------------------------------------------------------------
(* C3 *)

\* C3: in every reachable state dominantType is confused if the confused score is
\* >= 5, otherwise more if the more score is >= 5, otherwise null; with both
\* scores >= 5 it is confused.
C3_DominantPriority ==
    /\ recentReactions.confused >= 5 => dominantType = "confused"
    /\ (recentReactions.confused < 5 /\ recentReactions.more >= 5) => dominantType = "more"
    /\ (recentReactions.confused < 5 /\ recentReactions.more < 5) => dominantType = "null"

\* both scores are over the threshold at once
C3_Witness ==
    /\ recentReactions.confused >= 5
    /\ recentReactions.more >= 5
    /\ dominantType = "confused"

-----------------------------------------------------------------------------
(* C4 *)

\* C4: after setReactionsFromBackend(c, m) the displayed scores are exactly (c, m)
\* and dominantType and glowActive follow from (c, m) alone, whatever the local log
\* holds; the snapshot (7, 2) gives dominantType = confused and glowActive = TRUE.
C4_SnapshotOverwrites ==
    lastOp.op = "backend" =>
        /\ recentReactions = [confused |-> lastOp.args[1], more |-> lastOp.args[2]]
        /\ glowActive <=> (lastOp.args[1] >= 5 \/ lastOp.args[2] >= 5)
        /\ dominantType = (IF lastOp.args[1] >= 5 THEN "confused"
                           ELSE IF lastOp.args[2] >= 5 THEN "more" ELSE "null")
        /\ lastOp.args = <<7, 2>> => (dominantType = "confused" /\ glowActive)

\* the snapshot (7, 2) applied over a log that holds local more-reactions worth 5
C4_Witness ==
    /\ lastOp.op = "backend"
    /\ lastOp.args = <<7, 2>>
    /\ WindowPoints("more", now) >= 5
    /\ recentReactions = [confused |-> 7, more |-> 2]

-----------------------------------------------------------------------------
(* C5 *)

\* C5 as stated: once a snapshot has been applied, the displayed scores,
\* dominantType and glowActive stay those of the most recent snapshot across later
\* addReaction calls (stated for the addReaction that directly follows a snapshot).
C5_SnapshotSurvivesAdd ==
    [][(lastOp.op = "backend" /\ lastOp'.op = "add")
        => UNCHANGED <<recentReactions, dominantType, glowActive>>]_vars

\* C5 amended: the display is that of the most recent snapshot until the next store
\* write; an addReaction made after a snapshot appends its event to the local log
\* and replaces the displayed scores, dominantType and glowActive by those derived
\* from the log (last write wins).
C5_LastWriteWins ==
    /\ lastOp.op = "backend" =>
          recentReactions = [confused |-> lastOp.args[1], more |-> lastOp.args[2]]
    /\ (lastOp.op = "add" /\ lastOp.overSnapshot) =>
          /\ reactions # <<>>
          /\ reactions[Len(reactions)].type = lastOp.args[1]
          /\ reactions[Len(reactions)].points = (IF lastOp.args[2] THEN 2 ELSE 1)
          /\ LogDerived
          /\ glowActive <=> \E k \in ReactionType : WindowPointsFrom(reactions, 1, k, 0) >= 5
          /\ dominantType =
                (IF WindowPointsFrom(reactions, 1, "confused", 0) >= 5 THEN "confused"
                 ELSE IF WindowPointsFrom(reactions, 1, "more", 0) >= 5 THEN "more"
                 ELSE "null")

\* a rapid local reaction recorded right after a glowing snapshot: the glow is gone
C5_Witness ==
    /\ lastOp.op = "add"
    /\ lastOp.overSnapshot
    /\ lastOp.args[2] = TRUE
    /\ Len(reactions) = 1
    /\ ~glowActive
    /\ recentReactions.confused + recentReactions.more = 2

-----------------------------------------------------------------------------
(* C6 *)

\* C6: once a burst of local reactions has turned the glow on and no new reaction
\* arrives, the glow goes off after the burst's events have left the 30-second
\* window: a glow held while every logged event is expired does not last.
C6_GlowEventuallyOff ==
    (glowActive /\ AllExpired) ~> (~glowActive \/ ~AllExpired)

-----------------------------------------------------------------------------
(* C7 *)

\* C7 as stated: glowActive goes from true to false only when enough events of the
\* log have expired to leave both in-window scores below 5.
C7_GlowOffOnlyByExpiry ==
    [][(glowActive /\ ~glowActive')
        => \A k \in ReactionType : WindowPoints(k, now') < 5]_vars

\* C7 amended: the passage of time alone never turns the glow off, and an
\* addReaction made on log-derived scores while no logged event has expired keeps
\* it on; the glow goes off only through an addReaction that pruned expired events
\* or replaced scores that were not log-derived, or through setReactionsFromBackend,
\* updateReactions or resetReactions.
C7_GlowOffOnlyByOperation ==
    [][/\ (glowActive /\ now' # now) => glowActive'
       /\ (glowActive /\ LogDerived /\ NoneExpired /\ reactions' # reactions
             /\ reactions' # <<>>) => glowActive']_vars

\* a fourth reaction recorded on a glowing, log-derived display with nothing expired
C7_Witness ==
    /\ lastOp.op = "add"
    /\ Len(reactions) = 4
    /\ NoneExpired
    /\ LogDerived
    /\ glowActive
    /\ recentReactions.confused = 5

-----------------------------------------------------------------------------
(* C8 *)

-----------------------------------------------------------------------------
(* C9 *)

\* the confused score the normalization rule prescribes for a parsed message
ExpectedConfused(b) ==
    IF b.reactionCounts # {} /\ (CHOOSE r \in b.reactionCounts : TRUE).CONFUSED # {}
    THEN CHOOSE v \in (CHOOSE r \in b.reactionCounts : TRUE).CONFUSED : TRUE
    ELSE IF b.confusedCount # {} THEN CHOOSE v \in b.confusedCount : TRUE
    ELSE 0

\* the more score the normalization rule prescribes for a parsed message
ExpectedMore(b) ==
    IF b.reactionCounts # {} /\ (CHOOSE r \in b.reactionCounts : TRUE).MORE # {}
    THEN CHOOSE v \in (CHOOSE r \in b.reactionCounts : TRUE).MORE : TRUE
    ELSE IF b.moreCount # {} THEN CHOOSE v \in b.moreCount : TRUE
    ELSE 0

\* C9: every inbound message is normalized per field: a new-format field overrides
\* the legacy field of the same type, a missing new-format field falls back to the
\* legacy field, a message with neither gives 0 (so { reactionCounts: {} } gives
\* (0, 0)); the result is what setReactionsFromBackend receives.
C9_Normalization ==
    (lastMsg.outcome = "applied" /\ lastOp.op = "backend") =>
        /\ lastOp.args = <<ExpectedConfused(lastMsg.body), ExpectedMore(lastMsg.body)>>
        /\ recentReactions = [confused |-> ExpectedConfused(lastMsg.body),
                              more |-> ExpectedMore(lastMsg.body)]
        /\ (lastMsg.body.reactionCounts = {[CONFUSED |-> {}, MORE |-> {}]}
              /\ lastMsg.body.confusedCount = {} /\ lastMsg.body.moreCount = {})
             => recentReactions = [confused |-> 0, more |-> 0]

\* a new-format CONFUSED of 0 overrides a legacy 5 while MORE falls back to its legacy 5
C9_Witness ==
    /\ lastMsg.outcome = "applied"
    /\ lastOp.op = "backend"
    /\ lastMsg.body.reactionCounts = {[CONFUSED |-> {0}, MORE |-> {}]}
    /\ lastMsg.body.confusedCount = {5}
    /\ lastMsg.body.moreCount = {5}
    /\ recentReactions = [confused |-> 0, more |-> 5]

-----------------------------------------------------------------------------
(* C10 *)

-----------------------------------------------------------------------------
(* Vocabulary of the claims about the audience page and the hook *)

\* the number of clicks made so far that are less than 5000 ms old at time t
ClicksWithin(t) == Cardinality({i \in 1..Len(clickLog) : t - clickLog[i] < 5000})

\* the time of the last click
LastClickAt == clickLog[Len(clickLog)]

\* the step is a click
IsClick == clickLog' # clickLog

\* the state of the channel adapter, read off the hook and its client
Adapter ==
    IF client = "connected" THEN "Open"
    ELSE IF client \in {"closing", "aborting"} THEN "Closing"
    ELSE IF timers # {} THEN "ErrorPending"
    ELSE IF client \in {"connecting", "waiting"} THEN "Connecting"
    ELSE "Idle"

\* the step is the teardown of the view
IsTeardown == view = "mounted" /\ view' = "torndown"

\* the step is the callback of a grace timeout
IsErrorTimeout == timers' # timers /\ hookLog'.handler = "errorTimeout"

-----------------------------------------------------------------------------
(* C11 *)

-----------------------------------------------------------------------------
(* C12 *)

\* C12: on every click the classifier evicts the timestamps with now - ts >= 5000,
\* appends now, and reports isRapid exactly when the in-window count is >= 5: the
\* count it reports is the number of clicks ever made that are less than 5000 ms
\* old at the click, whatever the sweep did in between; between clicks the kept
\* timestamps are those of the last click's window that the sweep has not evicted.
C12_RapidIffFiveInWindow ==
    clickLog # <<>> =>
        /\ lastClick.count = ClicksWithin(LastClickAt)
        /\ lastClick.isRapid <=> ClicksWithin(LastClickAt) >= 5
        /\ \A i \in 1..Len(clickTimestamps) : LastClickAt - clickTimestamps[i] < 5000
        /\ Len(clickTimestamps) >= ClicksWithin(now)

\* the click that is the fifth of its window although six clicks were made
C12_Witness ==
    /\ Len(clickLog) = 6
    /\ now = LastClickAt
    /\ lastClick.isRapid
    /\ lastClick.count = 5

-----------------------------------------------------------------------------
(* C13 *)

\* C13: the strong-feedback signal fires on the click where isRapid goes from false
\* to true and on no click that follows a rapid click.
C13_FeedbackOncePerBurst ==
    [][IsClick => (lastClick'.feedback <=> (~lastClick.isRapid /\ lastClick'.isRapid))]_vars

-----------------------------------------------------------------------------
(* C14 *)

-----------------------------------------------------------------------------
(* C15 *)

\* C15: a transport error is not surfaced by its callback; connectionError becomes
\* 'WebSocket connection failed' (and onError is called for it) only in the callback
\* of the grace timeout, 10000 ms or more after the error that started the timeout,
\* with the client not connected; an error that arrives while a timeout is pending
\* starts no other.
C15_GraceBeforeTransportError ==
    /\ [][/\ (connectionError' = "WebSocket connection failed"
                /\ connectionError # "WebSocket connection failed")
               => (IsErrorTimeout /\ hookLog'.surfaced = "ws")
          /\ (IsErrorTimeout /\ hookLog'.surfaced = "ws")
               => /\ hookLog'.start \in timers
                  /\ now - hookLog'.start >= 10000
                  /\ ~(clientRef = "client" /\ client = "connected")
          /\ hookLog'.surfaced = "ws" => IsErrorTimeout \/ hookLog' = hookLog
          /\ (timers # {} /\ hookLog'.handler = "onWebSocketError") => timers' = timers]_vars
    /\ [](hookLog.surfaced = "ws" => now - hookLog.start >= 10000)

\* the error of time 0 surfaced at 10000 on a mounted view
C15_Witness ==
    /\ view = "mounted"
    /\ hookLog.handler = "errorTimeout"
    /\ hookLog.surfaced = "ws"
    /\ hookLog.start = 0
    /\ now = 10000
    /\ connectionError = "WebSocket connection failed"

-----------------------------------------------------------------------------
(* C16 *)

\* C16: when the connection succeeds while a grace timeout is pending, the timeout
\* is cancelled and its error never surfaces: after onConnect no timeout is pending,
\* connectionError is null and onError was not called; no timeout runs without
\* its handle being held, and none is pending while the client is connected.
C16_ConnectCancelsGraceTimer ==
    /\ [][hookLog'.connects = hookLog.connects + 1
            => /\ timers' = {}
               /\ errorTimeoutRef' = NoTimer
               /\ connectionError' = "null"
               /\ hookLog'.surfaced = "none"
               /\ isConnected']_vars
    /\ [](timers \subseteq {errorTimeoutRef})
    /\ []((clientRef = "client" /\ client = "connected")
            => (timers = {} /\ connectionError # "WebSocket connection failed"))

\* onConnect has just cancelled a pending grace timeout
C16_Witness ==
    /\ hookLog.handler = "onConnect"
    /\ hookLog.cancelled # NoTimer
    /\ client = "connected"
    /\ timers = {}
    /\ connectionError = "null"

-----------------------------------------------------------------------------
(* C17 *)

\* C17: after the view is torn down no timer of it is pending and none is created:
\* no grace timeout (also when a transport error callback arrives after the
\* teardown), no interval, and no connection error is surfaced after the teardown.
C17_NoTimerAfterTeardown ==
    view = "torndown" =>
        /\ timers = {}
        /\ errorTimeoutRef = NoTimer
        /\ intervals = {}
        /\ ~(hookLog.torndown /\ hookLog.surfaced # "none")

-----------------------------------------------------------------------------
(* C18 *)

\* C18: teardown brings the adapter to Idle and keeps it there: the client is
\* deactivated and released, isConnected is false, no reconnect is attempted, and
\* no callback of the released client changes isConnected or the reaction store
\* after the teardown.
C18_TeardownIsFinal ==
    /\ [](view = "torndown" =>
            /\ clientRef = "null"
            /\ ~Active(client)
            /\ ~isConnected)
    /\ [][view = "torndown" => UNCHANGED <<isConnected, storeVars>>]_vars

-----------------------------------------------------------------------------
(* C19 *)

\* the transitions the claim lists
ClaimedTransitions ==
    {<<"Idle", "Connecting">>, <<"Connecting", "Open">>, <<"Open", "Closing">>,
     <<"Closing", "Idle">>, <<"Connecting", "ErrorPending">>,
     <<"ErrorPending", "Idle">>, <<"ErrorPending", "Open">>}

\* the transitions the adapter makes while its view is mounted
MountedTransitions ==
    {<<"Idle", "Connecting">>, <<"Connecting", "Open">>,
     <<"Connecting", "ErrorPending">>, <<"ErrorPending", "Open">>,
     <<"ErrorPending", "Connecting">>, <<"Open", "Connecting">>}

\* the transitions the adapter makes after the teardown of its view
TorndownTransitions ==
    {<<"Closing", "Idle">>, <<"Closing", "ErrorPending">>, <<"ErrorPending", "Idle">>}

\* C19 as stated: the adapter only makes the listed transitions and teardown to
\* Idle (or to Closing on the way there); after the grace timeout fires it is Idle.
C19_ClaimedStateMachine ==
    [][/\ (Adapter' # Adapter /\ ~IsTeardown) => <<Adapter, Adapter'>> \in ClaimedTransitions
       /\ IsTeardown => Adapter' \in {"Closing", "Idle"}
       /\ IsErrorTimeout => Adapter' = "Idle"]_vars

\* C19 amended: while its view is mounted the adapter only makes the transitions
\* Idle -> Connecting -> Open, Connecting -> ErrorPending, ErrorPending -> Open,
\* Open -> Connecting when the connection drops, and ErrorPending -> Connecting
\* when the grace timeout fires: the error is surfaced and the client stays active
\* and keeps reconnecting. Teardown leads to Closing or Idle with the client no
\* longer active; afterwards the adapter goes Closing -> Idle, or
\* Closing -> ErrorPending -> Idle when a transport error arrives during the close.
C19_ActualStateMachine ==
    [][/\ (Adapter' # Adapter /\ view' # "torndown")
            => <<Adapter, Adapter'>> \in MountedTransitions
       /\ IsTeardown => (Adapter' \in {"Closing", "Idle"} /\ ~Active(client'))
       /\ (Adapter' # Adapter /\ view = "torndown")
            => <<Adapter, Adapter'>> \in TorndownTransitions
       /\ (IsErrorTimeout /\ view = "mounted")
            => (Adapter' = "Connecting" /\ Active(client'))]_vars

\* the grace timeout has fired on a mounted view: the error is shown, the client
\* is still trying
C19_Witness ==
    /\ view = "mounted"
    /\ hookLog.handler = "errorTimeout"
    /\ hookLog.surfaced = "ws"
    /\ Adapter = "Connecting"
    /\ client = "waiting"

-----------------------------------------------------------------------------
(* C20 *)

\* C20: while the view stays mounted a dropped connection is followed by a
\* reconnect attempt; whenever the client is connected the session topic is
\* subscribed, and a snapshot that arrives on any connection is applied to the store.
C20_ReconnectResubscribes ==
    /\ ((view = "mounted" /\ client = "waiting")
          ~> (client = "connecting" \/ view = "torndown"))
    /\ [](client = "connected" => subscribed)
    /\ []((lastMsg.outcome = "applied" /\ lastOp.op = "backend")
            => recentReactions = [confused |-> ExpectedConfused(lastMsg.body),
                                  more |-> ExpectedMore(lastMsg.body)])

\* a snapshot applied on the second connection of a mounted view
C20_Witness ==
    /\ view = "mounted"
    /\ hookLog.connects = 2
    /\ client = "connected"
    /\ lastMsg.conn = 2
    /\ lastMsg.outcome = "applied"
    /\ recentReactions = [confused |-> 7, more |-> 0]

-----------------------------------------------------------------------------
(* C21 *)

\* the last entry of the receipt log whose body was applied
LastApplied ==
    received[CHOOSE i \in 1..Len(received) :
                /\ received[i].outcome = "applied"
                /\ \A j \in (i + 1)..Len(received) : received[j].outcome # "applied"]

\* C21: the messages of the topic reach the callback in the order of their
\* publication, each one once (none skipped, none repeated), a message is applied
\* exactly when it is well-formed, and after any sequence of messages the displayed
\* scores, dominantType and glowActive are those of the last message applied.
C21_ReceiptOrder ==
    /\ Len(sent) = Len(received) + Len(inflight)
    /\ \A i \in 1..Len(received) :
          /\ received[i].body = sent[i]
          /\ received[i].outcome = (IF sent[i].kind \in {"unparseable", "null"}
                                    THEN "dropped" ELSE "applied")
    /\ \A i \in 1..Len(inflight) : inflight[i] = sent[Len(received) + i]
    /\ (\E i \in 1..Len(received) : received[i].outcome = "applied") =>
          /\ recentReactions = [confused |-> ExpectedConfused(LastApplied.body),
                                more |-> ExpectedMore(LastApplied.body)]
          /\ glowActive <=> (ExpectedConfused(LastApplied.body) >= 5
                               \/ ExpectedMore(LastApplied.body) >= 5)
          /\ dominantType = (IF ExpectedConfused(LastApplied.body) >= 5 THEN "confused"
                             ELSE IF ExpectedMore(LastApplied.body) >= 5 THEN "more"
                             ELSE "null")

\* three messages received: a glowing snapshot, a malformed one, and a lower snapshot
\* that is the one displayed
C21_Witness ==
    /\ Len(received) = 3
    /\ inflight = <<>>
    /\ received[1].outcome = "applied"
    /\ ExpectedConfused(received[1].body) = 7
    /\ received[2].outcome = "dropped"
    /\ received[3].outcome = "applied"
    /\ recentReactions = [confused |-> 5, more |-> 5]

-----------------------------------------------------------------------------
(* Vocabulary of the claims about the event log *)

\* the events of a log that are less than 30000 ms old at time t, in their order
Unexpired(log, t) == SelectSeq(log, LAMBDA e : t - e.timestamp < 30000)

\* the step is a call of the named store operation
IsOp(op) == lastOp' # lastOp /\ lastOp'.op = op

\* the step is an addReaction
IsAdd == reactions' # reactions /\ lastOp'.op = "add"

-----------------------------------------------------------------------------
(* C22 *)

\* C22: setReactionsFromBackend leaves the event log unchanged, and an addReaction
\* made after a snapshot still works on that same log: it keeps the unexpired
\* events the log held before the snapshot and appends its event to them.
C22_SnapshotBypassesLog ==
    [][/\ lastOp'.op = "backend" => reactions' = reactions
       /\ (lastOp.op = "backend" /\ IsOp("add"))
            => /\ Len(reactions') = Len(Unexpired(reactions, now)) + 1
               /\ SubSeq(reactions', 1, Len(reactions') - 1) = Unexpired(reactions, now)
               /\ reactions'[Len(reactions')].timestamp = now]_vars

\* a reaction recorded after a snapshot, next to an event that was logged before
\* the snapshot was applied
C22_Witness ==
    /\ lastOp.op = "add"
    /\ lastOp.overSnapshot
    /\ now = 30000
    /\ Len(reactions) = 2
    /\ reactions[1].timestamp = 29999
    /\ reactions[2].timestamp = 30000

-----------------------------------------------------------------------------
(* C23 *)

\* C23: whatever state resetReactions is called in, it leaves confused = 0,
\* more = 0, dominantType = null, glowActive = false, intensity = 0 and an empty
\* event log.
C23_ResetZeroes ==
    lastOp.op = "reset" =>
        /\ recentReactions = [confused |-> 0, more |-> 0]
        /\ dominantType = "null"
        /\ glowActive = FALSE
        /\ intensity = 0
        /\ reactions = <<>>

\* the store has been reset after the clock reached 30000
C23_Witness ==
    /\ lastOp.op = "reset"
    /\ now = 30000
    /\ reactions = <<>>
    /\ recentReactions = [confused |-> 0, more |-> 0]

-----------------------------------------------------------------------------
(* C24 *)

-----------------------------------------------------------------------------
(* C25 *)

\* C25: right after addReaction at time now every logged event is less than
\* 30000 ms old (one exactly 30000 ms old is gone), the events kept are the
\* unexpired ones in their order, and the new event is the last; the log changes
\* in no other way except that resetReactions empties it.
C25_LogPrunedByAgeOnly ==
    [][reactions' # reactions =>
          \/ /\ lastOp'.op = "reset"
             /\ reactions' = <<>>
          \/ /\ lastOp'.op = "add"
             /\ \A i \in 1..Len(reactions') : now - reactions'[i].timestamp < 30000
             /\ reactions'[Len(reactions')].timestamp = now
             /\ reactions'[Len(reactions')].type = lastOp'.args[1]
             /\ SubSeq(reactions', 1, Len(reactions') - 1) = Unexpired(reactions, now)]_vars

\* a reaction recorded at 30000 after two recorded at 29999, all three in the window
C25_Witness ==
    /\ lastOp.op = "add"
    /\ now = 30000
    /\ Len(reactions) = 3
    /\ reactions[1].timestamp = 29999
    /\ reactions[2].timestamp = 29999
    /\ reactions[3].timestamp = 30000

-----------------------------------------------------------------------------
(* C26 *)

\* C26: under every interleaving of addReaction, setReactionsFromBackend,
\* updateReactions and resetReactions the event log stays well-formed: every event
\* has type confused or more and 1 or 2 points, the timestamps never decrease
\* along the log, an event gets 2 points when recorded with isRapidClick true and
\* 1 otherwise and is kept as recorded, and only addReaction and resetReactions
\* change the log.
C26_LogWellFormed ==
    /\ [](\A i \in 1..Len(reactions) :
            /\ reactions[i].type \in {"confused", "more"}
            /\ reactions[i].points \in {1, 2}
            /\ \A j \in 1..Len(reactions) :
                  i < j => reactions[i].timestamp <= reactions[j].timestamp)
    /\ [][IsAdd =>
            /\ reactions'[Len(reactions')].type = lastOp'.args[1]
            /\ reactions'[Len(reactions')].points = (IF lastOp'.args[2] THEN 2 ELSE 1)
            /\ \A i \in 1..(Len(reactions') - 1) :
                  \E j \in 1..Len(reactions) : reactions[j] = reactions'[i]]_vars
    /\ [][reactions' # reactions => lastOp'.op \in {"add", "reset"}]_vars

\* a log of a rapid and a normal reaction of both types, recorded at different
\* times, with a snapshot applied last
C26_Witness ==
    /\ lastOp.op = "backend"
    /\ Len(reactions) = 3
    /\ reactions[1] = [type |-> "confused", timestamp |-> 0, points |-> 2]
    /\ reactions[2].type = "more"
    /\ reactions[2].points = 1
    /\ reactions[3].timestamp = 29999
    /\ recentReactions = [confused |-> 7, more |-> 2]

-----------------------------------------------------------------------------
(* Vocabulary of the claims about the question form *)

\* text is raw without the blanks at its two ends
IsTrimOf(text, raw) ==
    /\ text # <<>> => (text[1] # " " /\ text[Len(text)] # " ")
    /\ \E i \in 1..(Len(raw) + 1) :
          /\ \A k \in 1..(i - 1) : raw[k] = " "
          /\ \A k \in (i + Len(text))..Len(raw) : raw[k] = " "
          /\ i + Len(text) - 1 <= Len(raw)
          /\ text = SubSeq(raw, i, i + Len(text) - 1)

\* the step is the end of an awaited question request
IsSettled == pendingQuestion # {} /\ pendingQuestion' = {}

\* the text the request in flight was made with
PendingText == CHOOSE t \in pendingQuestion : TRUE

-----------------------------------------------------------------------------
(* C27 *)

\* C27: when the question request fails, no fault is raised: one record with the
\* trimmed text of the submission is put in sentQuestions, the input is cleared
\* and isSubmitting is false again, as after a request that succeeded.
C27_FailedQuestionKeptLocally ==
    /\ [][IsSettled =>
            /\ Len(sentQuestions') = Len(sentQuestions) + 1
            /\ Tail(sentQuestions') = sentQuestions
            /\ IsTrimOf(Head(sentQuestions').text, PendingText)
            /\ Head(sentQuestions').text # <<>>
            /\ question' = <<>>
            /\ ~isSubmitting'
            /\ ~unhandledFault']_vars
    /\ [](isSubmitting <=> pendingQuestion # {})

\* the request for " a " failed and its record "a" is in the list
C27_Witness ==
    /\ lastSubmit.outcome = "rejected"
    /\ lastSubmit.text = <<" ", "a", " ">>
    /\ sentQuestions # <<>>
    /\ Head(sentQuestions).text = <<"a">>
    /\ question = <<>>
    /\ ~isSubmitting

-----------------------------------------------------------------------------
(* C30 *)

\* C30: every submitted question adds exactly one record at the head of
\* sentQuestions and the records already there stay as they are; the default
\* display shows the newest records, at most 3, and the 'more' button is shown
\* exactly when there are more than 3 records, with the count total - 3.
C30_QuestionsAppendOnly ==
    /\ [][sentQuestions' # sentQuestions =>
            /\ IsSettled
            /\ Len(sentQuestions') = Len(sentQuestions) + 1
            /\ Tail(sentQuestions') = sentQuestions]_vars
    /\ [][IsSettled => Len(sentQuestions') = Len(sentQuestions) + 1]_vars
    /\ [](/\ Len(displayedQuestions) <= 3
          /\ Len(displayedQuestions) = (IF Len(sentQuestions) > 3 THEN 3 ELSE Len(sentQuestions))
          /\ \A i \in 1..Len(displayedQuestions) : displayedQuestions[i] = sentQuestions[i]
          /\ moreButton <=> Len(sentQuestions) > 3
          /\ moreButton => remainingCount = Len(sentQuestions) - 3)

\* four questions sent: three are displayed and the button counts one more
C30_Witness ==
    /\ Len(sentQuestions) = 4
    /\ Len(displayedQuestions) = 3
    /\ moreButton
    /\ remainingCount = 1
    /\ sentQuestions[1].timestamp = 1000
    /\ sentQuestions[4].timestamp = 0

-----------------------------------------------------------------------------
(* C28 *)

\* C28: joining with a 6-character code for which no session exists does not
\* enter a session view: a session view is only entered with a code whose lookup
\* succeeds, and after the join of any other code the user is still on the join
\* page with a message shown.
C28_UnknownCodeNotJoined ==
    /\ route.page = "session" => getSessionByCode(route.sessionCode) = "resolved"
    /\ (route.page = "join" /\ Len(fullCode) = 6 /\ error # "null")
          => getSessionByCode(fullCode) = "rejected"

-----------------------------------------------------------------------------
(* C29 *)

\* C29: the click window and the store are independent: a click or a sweep of the
\* burst classifier changes no field of the reaction store, and no operation of
\* the store (addReaction, setReactionsFromBackend, updateReactions,
\* resetReactions) changes the click timestamps.
C29_WindowsIndependent ==
    [][/\ (clickTimestamps' # clickTimestamps \/ IsClick)
            => (UNCHANGED storeVars /\ lastOp' = lastOp)
       /\ (storeVars' # storeVars \/ lastOp' # lastOp)
            => clickTimestamps' = clickTimestamps]_vars

\* the sweep has emptied the window of two clicks while the store, untouched by
\* it, holds two logged events and the glow of a snapshot
C29_Witness ==
    /\ Len(clickLog) = 2
    /\ clickTimestamps = <<>>
    /\ now = 5000
    /\ lastOp.op = "backend"
    /\ Len(reactions) = 2
    /\ glowActive


-----------------------------------------------------------------------------
(* The dashboard's question list *)

\* the members of a Set kept as the sequence of its elements
Members(set) == {set[i] : i \in DOMAIN set}

\* the ids listed, in the order of the list
IdList(list) == [i \in DOMAIN list |-> list[i].id]

\* a step that changed the checked ids, or the flags of an unchanged list
IsToggle ==
    \/ dashboard'.checkedIds # dashboard.checkedIds
    \/ /\ IdList(dashboard'.questions) = IdList(dashboard.questions)
       /\ dashboard'.questions # dashboard.questions

\* what a toggle of id makes of the page and of the persisted set
ToggledOnly(id) ==
    LET q == dashboard.questions
        r == dashboard'.questions
        set == Members(dashboard.checkedIds)
    IN /\ IdList(r) = IdList(q)
       /\ \A i \in DOMAIN q :
             r[i].checked = (IF q[i].id = id THEN ~q[i].checked ELSE q[i].checked)
       /\ Members(dashboard'.checkedIds) =
             (IF id \in set THEN set \ {id} ELSE set \cup {id})
       /\ Members(LoadCheckedIds(localStorage')) = Members(dashboard'.checkedIds)
       /\ storeVars' = storeVars
       /\ api' = api

\* C31: a toggle flips the checked flag of the questions with that id and the
\* membership of the id in the checked ids, which are persisted; the other
\* questions, the other ids and the reaction store stay as they are; and two
\* toggles of one question give back the list and the set of before
C31_ToggleFlipsOne ==
    /\ [](\A id \in Ids(dashboard.questions) :
            LET twice == ToggleQuestion(ToggleQuestion(dashboard, id), id)
            IN /\ twice.questions = dashboard.questions
               /\ Members(twice.checkedIds) = Members(dashboard.checkedIds))
    /\ [][IsToggle => \E id \in Ids(dashboard.questions) : ToggledOnly(id)]_vars

\* two questions listed, the older one toggled and persisted, the newer one not,
\* next to a store that shows a score
C31_Witness ==
    /\ dashboard.questions = <<[id |-> 2, checked |-> FALSE], [id |-> 1, checked |-> TRUE]>>
    /\ dashboard.checkedIds = <<1>>
    /\ localStorage = <<1>>
    /\ recentReactions.more = 5


\* C35: no two entries of the question list have the same id, whatever the order
\* in which the awaited incremental and full fetches settle
C35_NoDuplicateIds ==
    \A i, j \in DOMAIN dashboard.questions :
        i # j => dashboard.questions[i].id # dashboard.questions[j].id


\* C36: the checked flag of every listed question says whether its id is among the
\* checked ids, in every state, whatever fetches are awaited or have settled
C36_FlagIsMembership ==
    \A i \in DOMAIN dashboard.questions :
        dashboard.questions[i].checked =
            Has(dashboard.checkedIds, dashboard.questions[i].id)

\* question 1 was toggled, and the second fetch has settled and listed question 2
\* in front of it
C36_Witness ==
    /\ api.calls = 2
    /\ api.pending = <<>>
    /\ dashboard.hasFetchedOnce
    /\ dashboard.checkedIds = <<1>>
    /\ dashboard.questions = <<[id |-> 2, checked |-> FALSE], [id |-> 1, checked |-> TRUE]>>


-----------------------------------------------------------------------------
(* The hook under renders of its page *)

\* a render that passes other callbacks for the same session
IsCallbackChange == options' # options /\ options'.sessionId = options.sessionId

\* a render that passes another session id
IsSessionChange == options'.sessionId # options.sessionId

\* the clients of the hook that are active: the current one and those let go of
ActiveClients ==
    (IF client \in {"connecting", "connected", "waiting"} THEN 1 ELSE 0)
    + Cardinality({i \in DOMAIN released : released[i] \in {"connecting", "connected", "waiting"}})

\* C32: a render that changes the callbacks and keeps the session id leaves the
\* client and the whole connection state as they are, and a callback that the
\* hook invokes afterwards is the one of the latest render
C32_CallbackChangeKeepsChannel ==
    [][/\ IsCallbackChange => /\ hookVars' = hookVars
                              /\ released' = released
       /\ hookLog'.invoked # 0 /\ hookLog' # hookLog => hookLog'.invoked = options.callbacks]_vars

\* the callbacks were replaced while the first client was connected, and the error
\* of a later ERROR frame went to the new ones over the same connection
C32_Witness ==
    /\ options = [sessionId |-> 1, callbacks |-> 2]
    /\ client = "connected"
    /\ released = <<>>
    /\ hookLog.connects = 1
    /\ hookLog.handler = "onStompError"
    /\ hookLog.invoked = 2

\* C33: at most one client of a hook is active; a call of connect or reconnect
\* while the current client is active changes nothing; a change of the session id
\* leaves the old client deactivated and a new one connecting
C33_OneActiveClient ==
    /\ [](ActiveClients <= 1)
    /\ [][/\ IsSessionChange =>
               /\ client' = "connecting"
               /\ clientRef' = "client"
               /\ client \in {"connecting", "connected"} =>
                     Len(released') = Len(released) + 1
               /\ \A i \in DOMAIN released' : released'[i] \in {"closing", "aborting"}
          /\ ~IsSessionChange /\ clientRef = "client" /\ released' # released =>
               Len(released') < Len(released)]_vars

\* the session id changed while the first client was connected: that client is
\* closing, the one of the new session has connected
C33_Witness ==
    /\ options.sessionId = 2
    /\ released = <<"closing">>
    /\ client = "connected"
    /\ clientRef = "client"

\* C34: at most one grace timer is pending, and it is the one errorTimeoutRef
\* holds; a transport error that arrives while a timer is pending or while the
\* client is connected starts none; and errorTimeoutRef is null after the timer
\* has fired, after connect and after disconnect
C34_OneGraceTimer ==
    /\ [](/\ Cardinality(timers) <= 1
          /\ timers \subseteq {errorTimeoutRef}
          /\ hookLog.handler \in {"errorTimeout", "connect", "onConnect", "disconnect"}
                => errorTimeoutRef = NoTimer /\ timers = {})
    /\ [][hookLog'.handler = "onWebSocketError" /\ (timers # {} \/ RefConnected)
            => timers' = timers /\ errorTimeoutRef' = errorTimeoutRef]_vars

\* the last callback was a transport error that arrived while the client of the
\* second session was connected: no timer was started
C34_Witness ==
    /\ client = "connected"
    /\ clientRef = "client"
    /\ options.sessionId = 2
    /\ hookLog.handler = "onWebSocketError"
    /\ timers = {}
    /\ errorTimeoutRef = NoTimer
    /\ now = 9999


-----------------------------------------------------------------------------
(* The admin page *)

\* the peak effect has run for the scores shown
Settled == view = "mounted" /\ page = "admin" /\ admin.deps = {PeakDeps}

\* the phase of the session that the two times encode
Phase ==
    CASE admin.sessionStartTime = {} /\ admin.sessionEndTime = {} -> "NotStarted"
      [] admin.sessionStartTime # {} /\ admin.sessionEndTime = {} -> "Running"
      [] admin.sessionStartTime # {} /\ admin.sessionEndTime # {} -> "Ended"
      [] OTHER -> "EndedUnstarted"

\* C37: once the peak effect has run for the scores shown, neither peak is below
\* its score, also right after a session was started while the scores are not zero
C37_PeaksCoverScores ==
    Settled => /\ admin.peakConfused >= recentReactions.confused
               /\ admin.peakMore >= recentReactions.more

\* C38: the session goes NotStarted -> Running -> Ended and no other way: it ends
\* only from Running and only on an accepted confirmation, a declined one changes
\* no time, an end time is never set without a start time, and the times of a
\* running or an ended session are not set again
C38_SessionLifecycle ==
    /\ [](Phase # "EndedUnstarted")
    /\ [][/\ Phase' # Phase =>
               \/ Phase = "NotStarted" /\ Phase' = "Running"
               \/ Phase = "Running" /\ Phase' = "Ended" /\ admin'.confirm = "accepted"
          /\ admin'.confirm = "declined" /\ admin'.confirm # admin.confirm => Phase' = Phase
          /\ Phase # "NotStarted" => admin'.sessionStartTime = admin.sessionStartTime
          /\ Phase = "Ended" => admin'.sessionEndTime = admin.sessionEndTime]_vars

\* a session started at 0 ms and ended at 2000 ms on an accepted confirmation
C38_Witness ==
    /\ admin.sessionStartTime = {0}
    /\ admin.sessionEndTime = {2000}
    /\ admin.confirm = "accepted"
    /\ now = 2000

====
